---- MODULE Spec2Model ----
(***************************************************************************)
(* SakuraQAReview: the quiz session (src/js/app.js), the record store      *)
(* adapter and missing-record reconciler (src/js/storage.js) and the       *)
(* aggregation engine (src/js/analytics.js).                               *)
(*                                                                         *)
(* Three specifications share the module:                                  *)
(*   SpecMissing  getMissingQuestions applied to bounded remote responses  *)
(*   SpecAgg      analyzeData over bounded record lists                    *)
(*   Spec         the quiz session state machine (SpecFair adds fairness)  *)
(***************************************************************************)
EXTENDS Integers, Sequences, FiniteSets, TLC

\* ------------------------------------------------------------------ bounds
\* longest catalog handed to getMissingQuestions
MaxCatalog == 3
\* longest list of records in a remote response (SpecMissing)
MaxRemoteLen == 3

\* ------------------------------------------------------------ shared values
Reviewers == {"alice", "bob"}
Categories == {"food", "drink"}

RECURSIVE SeqsUpTo(_, _)
\* every sequence over S of length at most n
SeqsUpTo(S, n) ==
    IF n = 0 THEN {<<>>}
    ELSE LET shorter == SeqsUpTo(S, n - 1)
         IN shorter \cup {Append(s, x) : s \in {t \in shorter : Len(t) = n - 1}, x \in S}

Range(s) == {s[i] : i \in DOMAIN s}

VARIABLES
    \* --- SpecMissing: one call of StorageManager.getMissingQuestions
    AWS_CONFIG,     \* [apiEndpoint: BOOLEAN (configured or empty), enableS3Upload: BOOLEAN]
    mqResponse,     \* what the GET of the review endpoint yields: [kind, reviews]
    mqArgs,         \* [reviewerName, category, n]: the arguments, n = allQuestions.length
    mqResult        \* [done, value, threw]: done after the call, value = the indexes returned

missVars == <<AWS_CONFIG, mqResponse, mqArgs, mqResult>>

VARIABLES
    \* --- SpecAgg: the analytics page (Analytics in analytics.js)
    agStore,            \* the records loadReviews returns (grows as answers are submitted)
    agPc,               \* "start" before Analytics.init ran, "analyzed" after analyzeData
    questions,          \* Analytics.questions: the catalog
    reviews,            \* Analytics.reviews
    selectedReviewers,  \* Analytics.selectedReviewers
    enrichedReviews,    \* Analytics.enrichedReviews
    authorStats,        \* Analytics.authorStats: author -> [questionCount, accuracy, reviewerCount]
    reviewerStats,      \* Analytics.reviewerStats: reviewer -> [correct, total, accuracy]
    questionStats,      \* Analytics.questionStats: list of [questionId, correct, total, accuracy]
    overallStats        \* Analytics.overallStats: [accuracy, reviewerCount]

aggVars == <<agStore, agPc, questions, reviews, selectedReviewers, enrichedReviews,
             authorStats, reviewerStats, questionStats, overallStats>>

VARIABLES
    \* --- Spec: the quiz page (QuizApp in app.js) and the two stores
    page,                    \* "loading" | "question" | "error" | "home" (index.html)
    quizQuestions,           \* QuizApp.questions: the catalog filtered by category
    currentIndex,            \* QuizApp.currentIndex
    selectedAnswer,          \* QuizApp.selectedAnswer (Null when null)
    correctAnswerIndex,      \* QuizApp.correctAnswerIndex (Null when null)
    currentReviewId,         \* QuizApp.currentReviewId (NoId when null)
    missingQuestionsMode,    \* QuizApp.missingQuestionsMode
    missingQuestionIndexes,  \* QuizApp.missingQuestionIndexes
    currentMissingIndex,     \* QuizApp.currentMissingIndex
    resumeConfirmed,         \* sessionStorage resume_confirmed = 'true'
    ui,                      \* what the page displays: [result, submit, submitDisabled,
                             \*   next, complete, choicesDisabled]
    localResults,            \* localStorage review_results: the local answer records
    localProgress,           \* localStorage review_progress[reviewer__category].questionIndex
    remoteReviews,           \* the remote store's answer records, in append order
    remoteProgress,          \* the remote marker's questionIndex
    calls,                   \* the nextQuestion / completeReview invocations awaiting a fetch
    nextId,                  \* the next review_id saveResult generates
    lastStep                 \* what the last handler step did (dialogs shown, requests sent)

appVars == <<currentIndex, selectedAnswer, correctAnswerIndex, currentReviewId,
             missingQuestionsMode, missingQuestionIndexes, currentMissingIndex>>
storeVars == <<localResults, localProgress, remoteReviews, remoteProgress>>
sessVars == <<page, quizQuestions, appVars, resumeConfirmed, ui, storeVars, calls,
              nextId, lastStep>>

vars == <<missVars, aggVars, sessVars>>

\* null for an index (selectedAnswer, correctAnswerIndex) and an absent marker
Null == -1
\* null for currentReviewId
NoId == 0

\* the summary of a handler step that showed no dialog and sent nothing
Quiet(op) ==
    [op |-> op, outcome |-> "none", answer |-> "none", dialogs |-> {},
     sent |-> FALSE, attempts |-> 0, threw |-> FALSE]

HiddenUi ==
    [result |-> FALSE, submit |-> FALSE, submitDisabled |-> TRUE, next |-> FALSE,
     complete |-> FALSE, choicesDisabled |-> TRUE]

\* the quiz page is not open
SessIdle ==
    /\ page = "idle"
    /\ quizQuestions = <<>>
    /\ currentIndex = 0
    /\ selectedAnswer = Null
    /\ correctAnswerIndex = Null
    /\ currentReviewId = NoId
    /\ missingQuestionsMode = FALSE
    /\ missingQuestionIndexes = <<>>
    /\ currentMissingIndex = 0
    /\ resumeConfirmed = FALSE
    /\ ui = HiddenUi
    /\ localResults = <<>>
    /\ localProgress = Null
    /\ remoteReviews = <<>>
    /\ remoteProgress = Null
    /\ calls = <<>>
    /\ nextId = 1
    /\ lastStep = Quiet("none")

\* the analytics page is not open
AggIdle ==
    /\ agStore = <<>>
    /\ agPc = "idle"
    /\ questions = <<>>
    /\ reviews = <<>>
    /\ selectedReviewers = {}
    /\ enrichedReviews = <<>>
    /\ authorStats = <<>>
    /\ reviewerStats = <<>>
    /\ questionStats = <<>>
    /\ overallStats = [accuracy |-> 0, reviewerCount |-> 0]

\* no call of getMissingQuestions is modelled
MissIdle ==
    /\ mqResponse = [kind |-> "ok", reviews |-> <<>>]
    /\ mqArgs = [reviewerName |-> "alice", category |-> "food", n |-> 1]
    /\ mqResult = [done |-> TRUE, value |-> <<>>, threw |-> FALSE]

\* ---------------------------------------------- storage.js: remote reads
ConfigSet ==
    { [apiEndpoint |-> TRUE,  enableS3Upload |-> TRUE],
      [apiEndpoint |-> TRUE,  enableS3Upload |-> FALSE],
      [apiEndpoint |-> FALSE, enableS3Upload |-> TRUE] }

\* the outcomes of fetch(apiEndpoint, GET) followed by response.json()
\*   neterr     fetch rejects
\*   http       response.ok is false
\*   badjson    response.json() rejects
\*   nosuccess  {success: false, ...}
\*   noreviews  {success: true} without reviews
\*   notlist    {success: true, reviews: <a non-array>}
\*   ok         {success: true, reviews: [...]}
FailKinds == {"neterr", "http", "badjson", "nosuccess", "noreviews"}
ResponseKinds == FailKinds \cup {"notlist", "ok"}

StoredRecords == [reviewer_name : Reviewers, category : Categories,
                  question_index : 0..MaxCatalog]

\* StorageManager.getReviewsFromAPI: every failure is swallowed into []
\* (result.reviews is returned as it is, array or not: see returnsArray)
getReviewsFromAPI(config, response) ==
    IF ~config.enableS3Upload THEN <<>>
    ELSE IF ~config.apiEndpoint THEN <<>>
    ELSE IF response.kind \in {"neterr", "http", "badjson"} THEN <<>>     \* catch
    ELSE IF response.kind \in {"nosuccess", "noreviews"} THEN <<>>
    ELSE response.reviews

\* whether what getReviewsFromAPI returns is an array
returnsArray(config, response) ==
    ~(config.enableS3Upload /\ config.apiEndpoint /\ response.kind = "notlist")

\* the loop of getMissingQuestions: for (i = 0; i < n; i++) if (!saved.has(i)) push(i)
RECURSIVE missingFrom(_, _, _)
missingFrom(i, n, savedIndexes) ==
    IF i >= n THEN <<>>
    ELSE IF i \notin savedIndexes THEN <<i>> \o missingFrom(i + 1, n, savedIndexes)
         ELSE missingFrom(i + 1, n, savedIndexes)

\* r[name] === value, false when r has no property of that name
propertyIs(r, name, value) == name \in DOMAIN r /\ r[name] = value

\* a mutant of savedIndexesOf: the category is not compared
savedIndexesAnyCategory(s3Reviews, reviewerName, category) ==
    LET Relevant(r) == propertyIs(r, "reviewer_name", reviewerName)
    IN {r.question_index :
          r \in {x \in Range(SelectSeq(s3Reviews, Relevant)) : "question_index" \in DOMAIN x}}

\* relevantReviews.map(r => r.question_index) as a Set (an undefined
\* question_index equals no index i of the loop)
savedIndexesOf(s3Reviews, reviewerName, category) ==
    LET Relevant(r) == /\ propertyIs(r, "reviewer_name", reviewerName)
                       /\ propertyIs(r, "category", category)
    IN {r.question_index :
          r \in {x \in Range(SelectSeq(s3Reviews, Relevant)) : "question_index" \in DOMAIN x}}

\* StorageManager.getMissingQuestions: try { ... } catch { return [] }
getMissingQuestions(config, response, reviewerName, category, n) ==
    LET s3Reviews == getReviewsFromAPI(config, response)
    IN IF ~returnsArray(config, response)
       THEN [done |-> TRUE, value |-> <<>>, threw |-> FALSE]  \* .filter throws, caught
       ELSE [done |-> TRUE,
             value |-> missingFrom(0, n, savedIndexesOf(s3Reviews, reviewerName, category)),
             threw |-> FALSE]

\* ------------------------------------------------------------ SpecMissing
InitMissing ==
    /\ AWS_CONFIG \in ConfigSet
    /\ mqResponse \in
         {[kind |-> k, reviews |-> <<>>] : k \in ResponseKinds \ {"ok"}}
         \cup {[kind |-> "ok", reviews |-> rs] : rs \in SeqsUpTo(StoredRecords, MaxRemoteLen)}
    \* loadQuestions rejects an empty catalog before it calls getMissingQuestions
    /\ mqArgs \in [reviewerName : {"alice"}, category : {"food"}, n : 1..MaxCatalog]
    /\ mqResult = [done |-> FALSE, value |-> <<>>, threw |-> FALSE]
    /\ AggIdle
    /\ SessIdle

CallGetMissingQuestions ==
    /\ ~mqResult.done
    /\ mqResult' = getMissingQuestions(AWS_CONFIG, mqResponse,
                                       mqArgs.reviewerName, mqArgs.category, mqArgs.n)
    /\ UNCHANGED <<AWS_CONFIG, mqResponse, mqArgs, aggVars, sessVars>>

NextMissing == CallGetMissingQuestions

SpecMissing == InitMissing /\ [][NextMissing]_vars

\* the remote list call was made and failed, or returned a non-success payload
RemoteUnreachable ==
    /\ AWS_CONFIG.enableS3Upload
    /\ AWS_CONFIG.apiEndpoint
    /\ mqResponse.kind \in FailKinds

\* C1 (as claimed): when the remote list call fails or returns a non-success
\* payload, getMissingQuestions returns the empty sequence and raises nothing.
C1_UnreachableGivesEmpty ==
    (mqResult.done /\ RemoteUnreachable) =>
        (mqResult.value = <<>> /\ ~mqResult.threw)

\* the remote list call succeeded with a list of records
RemoteListed ==
    /\ AWS_CONFIG.enableS3Upload
    /\ AWS_CONFIG.apiEndpoint
    /\ mqResponse.kind = "ok"

\* the distinct question_index values of the remote records of the reviewer and category
MatchingIndexes ==
    {mqResponse.reviews[i].question_index :
        i \in {j \in DOMAIN mqResponse.reviews :
                 /\ mqResponse.reviews[j].reviewer_name = mqArgs.reviewerName
                 /\ mqResponse.reviews[j].category = mqArgs.category}}

StrictlyAscending(s) == \A i \in 1..(Len(s) - 1) : s[i] < s[i + 1]

InRangeAscending ==
    /\ StrictlyAscending(mqResult.value)
    /\ Range(mqResult.value) \subseteq 0..(mqArgs.n - 1)

\* C2 (as claimed): the result is strictly ascending within [0, N) and its
\* complement within [0, N) is exactly the set of distinct questionIndex values
\* of the matching remote records.
C2_ComplementIsRemoteIndexes ==
    (mqResult.done /\ RemoteListed) =>
        /\ InRangeAscending
        /\ (0..(mqArgs.n - 1)) \ Range(mqResult.value) = MatchingIndexes

\* C2 (amended): the result is strictly ascending within [0, N) and its
\* complement within [0, N) is exactly the set of those distinct question_index
\* values of the matching remote records that lie in [0, N).
C2_ComplementIsRemoteIndexesInRange ==
    (mqResult.done /\ RemoteListed) =>
        /\ InRangeAscending
        /\ (0..(mqArgs.n - 1)) \ Range(mqResult.value)
              = MatchingIndexes \cap (0..(mqArgs.n - 1))

\* C2 witness: records for indexes {0, 2} of a catalog of 3 (and one of another
\* category) give [1].
C2_Witness ==
    /\ mqResult.done
    /\ RemoteListed
    /\ mqArgs.n = 3
    /\ MatchingIndexes = {0, 2}
    /\ \E i \in DOMAIN mqResponse.reviews : mqResponse.reviews[i].category # mqArgs.category
    /\ mqResult.value = <<1>>

\* ------------------------------------------- analytics.js: the aggregation
\* longest record list of the store at analysis time
MaxReviews == 3

\* catalogs: questionID and authored_by ("" when the question has no authored_by)
AggCatalogs ==
    { << [questionID |-> "q1", authored_by |-> "A"], [questionID |-> "q2", authored_by |-> "B"] >>,
      << [questionID |-> "q1", authored_by |-> "A"], [questionID |-> "q2", authored_by |-> "A"] >>,
      << [questionID |-> "q1", authored_by |-> "A"], [questionID |-> "q2", authored_by |-> "Unknown"] >>,
      << [questionID |-> "q1", authored_by |-> "A"], [questionID |-> "q2", authored_by |-> ""] >> }

\* answer records as stored by saveResult; "qX" is in no catalog
AggReviewers == {"bob", "carol"}
AggRecords == [reviewer_name : AggReviewers, question_id : {"q1", "q2", "qX"},
               is_correct : BOOLEAN]

\* review[name] is a non-empty string (a truthy operand of ||)
truthy(review, name) == name \in DOMAIN review /\ review[name] # ""

\* review.reviewer_name || review.reviewerName || 'Unknown'
reviewerOf(review) ==
    IF truthy(review, "reviewer_name") THEN review.reviewer_name
    ELSE IF truthy(review, "reviewerName") THEN review.reviewerName
    ELSE "Unknown"
\* review.question_id || review.questionId ("" stands for undefined)
questionIdOf(review) ==
    IF truthy(review, "question_id") THEN review.question_id
    ELSE IF truthy(review, "questionId") THEN review.questionId
    ELSE ""
\* review.is_correct || review.isCorrect
isCorrectOf(review) ==
    \/ "is_correct" \in DOMAIN review /\ review.is_correct
    \/ "isCorrect" \in DOMAIN review /\ review.isCorrect

\* ((num / den) * 100).toFixed(1), in tenths of a percent (den > 0)
toFixed1(num, den) == (2000 * num + den) \div (2 * den)

\* questionMap.has(id) / questionMap.get(id)
questionMapHas(qs, id) == \E i \in DOMAIN qs : qs[i].questionID = id
questionMapGet(qs, id) ==
    qs[CHOOSE i \in DOMAIN qs :
         /\ qs[i].questionID = id
         /\ \A j \in DOMAIN qs : qs[j].questionID = id => j <= i]

\* question || {}: a question without properties
NoQuestion == [questionID |-> "", authored_by |-> ""]

\* a mutant of enrich: the reviewer selection is not applied
enrichNoSelection(qs, rs, selected) ==
    LET InCatalog(review) == questionMapHas(qs, questionIdOf(review))
        filteredReviews == SelectSeq(rs, InCatalog)
    IN [i \in DOMAIN filteredReviews |->
          [question |-> questionMapGet(qs, questionIdOf(filteredReviews[i]))]
             @@ filteredReviews[i]]

\* a mutant of enrich: the records are not filtered by the catalog
enrichNoCatalogFilter(qs, rs, selected) ==
    LET Selected(review) == reviewerOf(review) \in selected
        filteredReviews == SelectSeq(rs, Selected)
    IN [i \in DOMAIN filteredReviews |->
          [question |-> IF questionMapHas(qs, questionIdOf(filteredReviews[i]))
                        THEN questionMapGet(qs, questionIdOf(filteredReviews[i]))
                        ELSE NoQuestion]
             @@ filteredReviews[i]]

\* a mutant of enrich: the joined records are pushed onto this.enrichedReviews
enrichAppending(qs, rs, selected) ==
    LET InCatalog(review) == questionMapHas(qs, questionIdOf(review))
        Selected(review) == reviewerOf(review) \in selected
        filteredReviews == SelectSeq(SelectSeq(rs, InCatalog), Selected)
    IN enrichedReviews \o
       [i \in DOMAIN filteredReviews |->
          [question |-> questionMapGet(qs, questionIdOf(filteredReviews[i]))]
             @@ filteredReviews[i]]

\* analyzeData, lines 116-136: filter by catalog, filter by selection, then
\* { ...review, question: question || {} }
enrich(qs, rs, selected) ==
    LET InCatalog(review) == questionMapHas(qs, questionIdOf(review))
        Selected(review) == reviewerOf(review) \in selected
        filteredReviews == SelectSeq(SelectSeq(rs, InCatalog), Selected)
    IN [i \in DOMAIN filteredReviews |->
          [question |-> questionMapGet(qs, questionIdOf(filteredReviews[i]))]
             @@ filteredReviews[i]]

\* stats[key] = value on an object used as a map
put(stats, key, value) ==
    [k \in DOMAIN stats \cup {key} |-> IF k = key THEN value ELSE stats[k]]

\* a mutant of byReviewerLoop: every record counts, no uniqueQuestions check
RECURSIVE byReviewerLoopNoDedup(_, _)
byReviewerLoopNoDedup(enriched, stats) ==
    IF enriched = <<>> THEN stats
    ELSE LET review == Head(enriched)
             reviewer == reviewerOf(review)
             s == IF reviewer \in DOMAIN stats THEN stats[reviewer]
                  ELSE [correct |-> 0, total |-> 0, uniqueQuestions |-> {}]
         IN byReviewerLoopNoDedup(Tail(enriched),
              put(stats, reviewer,
                  [correct |-> s.correct + (IF isCorrectOf(review) THEN 1 ELSE 0),
                   total |-> s.total + 1,
                   uniqueQuestions |-> s.uniqueQuestions \cup {questionIdOf(review)}]))

\* a mutant of byReviewerLoop: correct++ stands outside the uniqueQuestions test
RECURSIVE byReviewerLoopCorrectOutside(_, _)
byReviewerLoopCorrectOutside(enriched, stats) ==
    IF enriched = <<>> THEN stats
    ELSE LET review == Head(enriched)
             reviewer == reviewerOf(review)
             questionId == questionIdOf(review)
             s == IF reviewer \in DOMAIN stats THEN stats[reviewer]
                  ELSE [correct |-> 0, total |-> 0, uniqueQuestions |-> {}]
             counted ==
                 [correct |-> s.correct + (IF isCorrectOf(review) THEN 1 ELSE 0),
                  total |-> s.total + (IF questionId \notin s.uniqueQuestions THEN 1 ELSE 0),
                  uniqueQuestions |-> s.uniqueQuestions \cup {questionId}]
         IN byReviewerLoopCorrectOutside(Tail(enriched), put(stats, reviewer, counted))

\* calculateByReviewer, the forEach of lines 394-417
RECURSIVE byReviewerLoop(_, _)
byReviewerLoop(enriched, stats) ==
    IF enriched = <<>> THEN stats
    ELSE LET review == Head(enriched)
             reviewer == reviewerOf(review)
             questionId == questionIdOf(review)
             s == IF reviewer \in DOMAIN stats THEN stats[reviewer]
                  ELSE [correct |-> 0, total |-> 0, uniqueQuestions |-> {}]
             counted ==
                 IF questionId \notin s.uniqueQuestions
                 THEN [correct |-> s.correct + (IF isCorrectOf(review) THEN 1 ELSE 0),
                       total |-> s.total + 1,
                       uniqueQuestions |-> s.uniqueQuestions \cup {questionId}]
                 ELSE s
         IN byReviewerLoop(Tail(enriched), put(stats, reviewer, counted))

\* a mutant of calculateByReviewer: the ratio is not multiplied by 100
calculateByReviewerRatio(enriched) ==
    LET stats == byReviewerLoop(enriched, <<>>)
    IN [r \in DOMAIN stats |->
          [correct |-> stats[r].correct,
           total |-> stats[r].total,
           accuracy |-> IF stats[r].total > 0
                        THEN toFixed1(stats[r].correct, 100 * stats[r].total) ELSE 0]]

\* Analytics.calculateByReviewer: accuracy in tenths of a percent
calculateByReviewer(enriched) ==
    LET stats == byReviewerLoop(enriched, <<>>)
    IN [r \in DOMAIN stats |->
          [correct |-> stats[r].correct,
           total |-> stats[r].total,
           accuracy |-> IF stats[r].total > 0
                        THEN toFixed1(stats[r].correct, stats[r].total) ELSE 0]]

\* calculateByAuthor, the forEach of lines 324-348: author -> reviewer -> [correct, total]
RECURSIVE byAuthorLoop(_, _)
byAuthorLoop(enriched, stats) ==
    IF enriched = <<>> THEN stats
    ELSE LET review == Head(enriched)
             author == review.question.authored_by
             reviewer == reviewerOf(review)
         IN IF author = "" \/ author = "Unknown"
            THEN byAuthorLoop(Tail(enriched), stats)
            ELSE LET forAuthor == IF author \in DOMAIN stats THEN stats[author] ELSE <<>>
                     s == IF reviewer \in DOMAIN forAuthor THEN forAuthor[reviewer]
                          ELSE [correct |-> 0, total |-> 0]
                     counted == [correct |-> s.correct + (IF isCorrectOf(review) THEN 1 ELSE 0),
                                 total |-> s.total + 1]
                 IN byAuthorLoop(Tail(enriched),
                                 put(stats, author, put(forAuthor, reviewer, counted)))

\* the sum of correct/total over the reviewers rs of one author, as a fraction
RECURSIVE sumOfRatios(_, _)
sumOfRatios(forAuthor, rs) ==
    IF rs = {} THEN [num |-> 0, den |-> 1]
    ELSE LET r == CHOOSE x \in rs : TRUE
             rest == sumOfRatios(forAuthor, rs \ {r})
         IN [num |-> rest.num * forAuthor[r].total + forAuthor[r].correct * rest.den,
             den |-> rest.den * forAuthor[r].total]

\* authorQuestionCounts[author], lines 351-356
authorQuestionCount(qs, author) ==
    Cardinality({i \in DOMAIN qs : qs[i].authored_by = author})

\* a mutant of calculateByAuthor: the pooled correct/total ratio of the author
calculateByAuthorPooled(qs, enriched) ==
    LET authorReviewerStats == byAuthorLoop(enriched, <<>>)
    IN [author \in DOMAIN authorReviewerStats |->
          LET forAuthor == authorReviewerStats[author]
              Sum(field) == LET RECURSIVE add(_)
                                add(rs) == IF rs = {} THEN 0
                                           ELSE LET r == CHOOSE x \in rs : TRUE
                                                IN forAuthor[r][field] + add(rs \ {r})
                            IN add(DOMAIN forAuthor)
          IN [questionCount |-> authorQuestionCount(qs, author),
              accuracy |-> toFixed1(Sum("correct"), Sum("total")),
              reviewerCount |-> Cardinality(DOMAIN forAuthor)]]

\* Analytics.calculateByAuthor: the mean of the reviewers' own ratios, toFixed(1)
calculateByAuthor(qs, enriched) ==
    LET authorReviewerStats == byAuthorLoop(enriched, <<>>)
    IN [author \in DOMAIN authorReviewerStats |->
          LET forAuthor == authorReviewerStats[author]
              n == Cardinality(DOMAIN forAuthor)
              sum == sumOfRatios(forAuthor, DOMAIN forAuthor)
          IN [questionCount |-> authorQuestionCount(qs, author),
              accuracy |-> toFixed1(sum.num, sum.den * n),
              reviewerCount |-> n]]

\* calculateByQuestion, the forEach of lines 437-453: the entries in the order
\* in which their keys were created
RECURSIVE byQuestionLoop(_, _)
byQuestionLoop(enriched, statsList) ==
    IF enriched = <<>> THEN statsList
    ELSE LET review == Head(enriched)
             questionId == questionIdOf(review)
             inc == IF isCorrectOf(review) THEN 1 ELSE 0
             known == \E i \in DOMAIN statsList : statsList[i].questionId = questionId
         IN byQuestionLoop(Tail(enriched),
              IF known
              THEN [i \in DOMAIN statsList |->
                      IF statsList[i].questionId = questionId
                      THEN [statsList[i] EXCEPT !.total = @ + 1, !.correct = @ + inc]
                      ELSE statsList[i]]
              ELSE Append(statsList, [questionId |-> questionId, correct |-> inc, total |-> 1]))

\* statsList.sort((a, b) => a.accuracy - b.accuracy): stable, ascending
RECURSIVE sortByAccuracy(_)
sortByAccuracy(list) ==
    IF list = <<>> THEN <<>>
    ELSE LET rest == sortByAccuracy(SubSeq(list, 1, Len(list) - 1))
             x == list[Len(list)]
             k == Cardinality({i \in DOMAIN rest : rest[i].accuracy <= x.accuracy})
         IN SubSeq(rest, 1, k) \o <<x>> \o SubSeq(rest, k + 1, Len(rest))

\* the number a property key stands for when it is an integer index ("1", "2":
\* a questionID that is a number or a canonical numeric string), else Null
arrayIndex(key) == IF key = "1" THEN 1 ELSE IF key = "2" THEN 2 ELSE Null

\* ascending by integer key (the keys of an object are distinct)
RECURSIVE sortByIndex(_)
sortByIndex(list) ==
    IF list = <<>> THEN <<>>
    ELSE LET rest == sortByIndex(SubSeq(list, 1, Len(list) - 1))
             x == list[Len(list)]
             k == Cardinality({i \in DOMAIN rest :
                                 arrayIndex(rest[i].questionId) < arrayIndex(x.questionId)})
         IN SubSeq(rest, 1, k) \o <<x>> \o SubSeq(rest, k + 1, Len(rest))

\* Object.values(stats): the integer keys first, in ascending numeric order,
\* then the other keys in the order in which they were created
objectValues(statsList) ==
    LET IsIndex(st) == arrayIndex(st.questionId) # Null
        IsName(st) == arrayIndex(st.questionId) = Null
    IN sortByIndex(SelectSeq(statsList, IsIndex)) \o SelectSeq(statsList, IsName)

\* Analytics.calculateByQuestion
calculateByQuestion(enriched) ==
    LET statsList == objectValues(byQuestionLoop(enriched, <<>>))
    IN sortByAccuracy([i \in DOMAIN statsList |->
          [questionId |-> statsList[i].questionId,
           correct |-> statsList[i].correct,
           total |-> statsList[i].total,
           accuracy |-> toFixed1(statsList[i].correct, statsList[i].total)]])

\* a mutant of calculateOverallStats: the pooled correct/total ratio
calculateOverallStatsPooled(byReviewer) ==
    LET n == Cardinality(DOMAIN byReviewer)
        Sum(field) == LET RECURSIVE add(_)
                          add(rs) == IF rs = {} THEN 0
                                     ELSE LET r == CHOOSE x \in rs : TRUE
                                          IN byReviewer[r][field] + add(rs \ {r})
                      IN add(DOMAIN byReviewer)
    IN IF n = 0 THEN [accuracy |-> 0, reviewerCount |-> 0]
       ELSE [accuracy |-> toFixed1(Sum("correct"), Sum("total")), reviewerCount |-> n]

RECURSIVE sumAccuracy(_, _)
sumAccuracy(stats, rs) ==
    IF rs = {} THEN 0
    ELSE LET r == CHOOSE x \in rs : TRUE
         IN stats[r].accuracy + sumAccuracy(stats, rs \ {r})

\* Analytics.calculateOverallStats: the mean of the by-reviewer accuracies, toFixed(1);
\* the tenths are summed exactly and a tie x.x5 is rounded up
calculateOverallStats(byReviewer) ==
    LET n == Cardinality(DOMAIN byReviewer)
    IN IF n = 0 THEN [accuracy |-> 0, reviewerCount |-> 0]
       ELSE [accuracy |-> (2 * sumAccuracy(byReviewer, DOMAIN byReviewer) + n) \div (2 * n),
             reviewerCount |-> n]

\* Analytics.analyzeData on this.questions, this.reviews, this.selectedReviewers
analyzeData(qs, rs, selected) ==
    /\ enrichedReviews' = enrich(qs, rs, selected)
    /\ authorStats' = calculateByAuthor(qs, enrichedReviews')
    /\ reviewerStats' = calculateByReviewer(enrichedReviews')
    /\ questionStats' = calculateByQuestion(enrichedReviews')
    /\ overallStats' = calculateOverallStats(reviewerStats')

\* initializeReviewerFilter: every reviewer of the loaded records is selected
allReviewers(rs) == {reviewerOf(rs[i]) : i \in DOMAIN rs}

\* Analytics.loadFromAPI: the list it resolves to, or a rejection
loadFromAPI(config, response) ==
    IF ~config.apiEndpoint THEN [threw |-> TRUE, value |-> <<>>]
    ELSE IF response.kind \in {"neterr", "http", "badjson"} THEN [threw |-> TRUE, value |-> <<>>]
    ELSE IF response.kind = "ok" THEN [threw |-> FALSE, value |-> response.reviews]
    ELSE [threw |-> TRUE, value |-> <<>>]      \* !(data.success && Array.isArray(data.reviews))

\* a mutant of loadReviews: the list of the API is returned whatever its length
loadReviewsNoFallback(config, response, local) ==
    IF config.apiEndpoint /\ ~loadFromAPI(config, response).threw
    THEN loadFromAPI(config, response).value
    ELSE local

\* a mutant of loadReviews: the local records are appended to the API's list
loadReviewsMerged(config, response, local) ==
    IF /\ config.apiEndpoint
       /\ ~loadFromAPI(config, response).threw
       /\ Len(loadFromAPI(config, response).value) > 0
    THEN loadFromAPI(config, response).value \o local
    ELSE local

\* Analytics.loadReviews: the API's list when there is one and it is not empty,
\* else StorageManager.getAllResults()
loadReviews(config, response, local) ==
    IF /\ config.apiEndpoint
       /\ ~loadFromAPI(config, response).threw
       /\ Len(loadFromAPI(config, response).value) > 0
    THEN loadFromAPI(config, response).value
    ELSE local

\* ---------------------------------------------------------------- SpecAgg
InitAgg ==
    /\ AWS_CONFIG = [apiEndpoint |-> TRUE, enableS3Upload |-> TRUE]
    /\ MissIdle
    /\ SessIdle
    /\ agPc = "start"
    /\ agStore \in SeqsUpTo(AggRecords, MaxReviews) \ {<<>>}
    /\ questions \in AggCatalogs
    /\ reviews = <<>>
    /\ selectedReviewers = {}
    /\ enrichedReviews = <<>>
    /\ authorStats = <<>>
    /\ reviewerStats = <<>>
    /\ questionStats = <<>>
    /\ overallStats = [accuracy |-> 0, reviewerCount |-> 0]

\* Analytics.init: loadData, initializeReviewerFilter, analyzeData
\* (loadData throws on an empty record list: the store is not empty here)
AnalyticsInit ==
    /\ agPc = "start"
    /\ reviews' = agStore
    /\ selectedReviewers' = allReviewers(agStore)
    /\ analyzeData(questions, reviews', selectedReviewers')
    /\ agPc' = "analyzed"
    /\ UNCHANGED <<agStore, questions, missVars, sessVars>>

\* the change handler of a reviewer's checkbox (lines 215-222): toggle, refreshAnalysis
ToggleReviewer ==
    /\ agPc = "analyzed"
    /\ \E r \in allReviewers(reviews) :
         selectedReviewers' = IF r \in selectedReviewers THEN selectedReviewers \ {r}
                              ELSE selectedReviewers \cup {r}
    /\ analyzeData(questions, reviews, selectedReviewers')
    /\ UNCHANGED <<agStore, agPc, questions, reviews, missVars, sessVars>>

\* selectAllReviewers
SelectAllReviewers ==
    /\ agPc = "analyzed"
    /\ selectedReviewers' = allReviewers(reviews)
    /\ analyzeData(questions, reviews, selectedReviewers')
    /\ UNCHANGED <<agStore, agPc, questions, reviews, missVars, sessVars>>

\* deselectAllReviewers
DeselectAllReviewers ==
    /\ agPc = "analyzed"
    /\ selectedReviewers' = {}
    /\ analyzeData(questions, reviews, selectedReviewers')
    /\ UNCHANGED <<agStore, agPc, questions, reviews, missVars, sessVars>>

\* a quiz session appends one more record to the store and the page is loaded
\* again: Analytics.init on the longer list
ReloadAfterSubmission ==
    /\ agPc = "analyzed"
    /\ Len(agStore) < MaxReviews
    /\ \E rec \in AggRecords : agStore' = Append(agStore, rec)
    /\ reviews' = agStore'
    /\ selectedReviewers' = allReviewers(agStore')
    /\ analyzeData(questions, reviews', selectedReviewers')
    /\ UNCHANGED <<agPc, questions, missVars, sessVars>>

NextAgg ==
    \/ AnalyticsInit
    \/ ToggleReviewer
    \/ SelectAllReviewers
    \/ DeselectAllReviewers
    \/ ReloadAfterSubmission

SpecAgg == InitAgg /\ [][NextAgg]_vars

\* the records of reviewer r on question q, as positions of the enriched list
RecordsOf(r, q) ==
    {i \in DOMAIN enrichedReviews :
        reviewerOf(enrichedReviews[i]) = r /\ questionIdOf(enrichedReviews[i]) = q}

\* the first record, in input order, of a pair that has records
FirstOf(r, q) == CHOOSE i \in RecordsOf(r, q) : \A j \in RecordsOf(r, q) : i <= j

AnsweredBy(r) == {q \in {"q1", "q2", "qX"} : RecordsOf(r, q) # {}}

\* C3: by-reviewer statistics count each (reviewerId, questionId) pair exactly
\* once toward total and correct, and the record that counts is the first one
\* of the pair in input order.
C3_FirstRecordPerPair ==
    agPc = "analyzed" =>
        /\ DOMAIN reviewerStats = {reviewerOf(enrichedReviews[i]) : i \in DOMAIN enrichedReviews}
        /\ \A r \in DOMAIN reviewerStats :
             /\ reviewerStats[r].total = Cardinality(AnsweredBy(r))
             /\ reviewerStats[r].correct =
                  Cardinality({q \in AnsweredBy(r) : isCorrectOf(enrichedReviews[FirstOf(r, q)])})

\* C3 witness: a reviewer with a correct record for a question followed by a
\* wrong one for the same question is counted 1 of 1.
C3_Witness ==
    /\ agPc = "analyzed"
    /\ \E r \in DOMAIN reviewerStats : \E q \in AnsweredBy(r) :
         /\ Cardinality(RecordsOf(r, q)) >= 2
         /\ isCorrectOf(enrichedReviews[FirstOf(r, q)])
         /\ \E i \in RecordsOf(r, q) : ~isCorrectOf(enrichedReviews[i])
         /\ reviewerStats[r].total = 1
         /\ reviewerStats[r].correct = 1

\* the accuracy of every author of the by-author group
AuthorAccuracy(stats) == [a \in DOMAIN stats |-> stats[a].accuracy]

\* C4 (as claimed): a record added for a (reviewer, question) pair that already
\* has a record leaves every author's accuracy unchanged.
C4_DuplicateKeepsAuthorAccuracy ==
    [][ ( /\ agPc = "analyzed"
          /\ Len(agStore') = Len(agStore) + 1
          /\ selectedReviewers = allReviewers(reviews)
          /\ \E i \in DOMAIN agStore :
               /\ agStore[i].reviewer_name = agStore'[Len(agStore')].reviewer_name
               /\ agStore[i].question_id = agStore'[Len(agStore')].question_id )
        => AuthorAccuracy(authorStats') = AuthorAccuracy(authorStats) ]_vars

\* ----------------------------------------------------- app.js: the quiz page
\* questions of the session's category
NumQuestions == 2
\* nextQuestion / completeReview invocations that may await a fetch at once
MaxCalls == 2
\* saveToServerWithRetry: const maxRetries = 3
maxRetries == 3

reviewerName == "alice"
category == "food"

\* the kinds of question a catalog holds: choice list and answer field
\*   1: the answer is the first choice      2: two choices carry the same text
\*   3: the answer matches no choice        4: no answer field ("")
QuizKinds ==
    << [choice |-> <<"x", "y">>, answer |-> "x"],
       [choice |-> <<"x", "x">>, answer |-> "x"],
       [choice |-> <<"x", "y">>, answer |-> "z"],
       [choice |-> <<"y", "x">>, answer |-> ""] >>

\* a filtered catalog of n questions: the kinds of question in turn
CatalogOf(n) ==
    [i \in 1..n |->
        [questionID |-> i, category |-> category,
         choice |-> QuizKinds[((i - 1) % Len(QuizKinds)) + 1].choice,
         answer |-> QuizKinds[((i - 1) % Len(QuizKinds)) + 1].answer]]

\* the filtered catalog of a session
Catalog == CatalogOf(NumQuestions)

\* the indexes the remote store holds records for when a page on n questions is
\* opened: none, all, all but index 1, index 1 alone
PriorRemoteSetsOf(n) == { {}, 0..(n - 1), (0..(n - 1)) \ {1}, {1} }

PriorRemoteSets == PriorRemoteSetsOf(NumQuestions)

\* an answer record of an earlier session, as the remote store lists it
PriorRecord(i) ==
    [review_id |-> 0 - (i + 1), question_id |-> i + 1, question_index |-> i,
     category |-> category, reviewer_name |-> reviewerName,
     answer |-> "x", correct_answer |-> "x", is_correct |-> TRUE, comment |-> ""]

\* the records of the indexes in S, ascending
RECURSIVE PriorRecords(_, _)
PriorRecords(S, i) ==
    IF \A j \in S : j < i THEN <<>>
    ELSE (IF i \in S THEN <<PriorRecord(i)>> ELSE <<>>) \o PriorRecords(S, i + 1)

\* AWS_CONFIG.apiEndpoint && AWS_CONFIG.enableS3Upload
apiEnabled(config) == config.apiEndpoint /\ config.enableS3Upload

\* a mutant of getProgress: the remote marker is never asked for
getProgressLocalOnly(config, outcome, remote, local) == local

\* StorageManager.getProgress: the remote marker when the API returns one, else the local one
getProgress(config, outcome, remote, local) ==
    IF apiEnabled(config) /\ outcome = "ok" /\ remote # Null THEN remote ELSE local

\* choices.findIndex(c => c === correctAnswer), 0-based, Null when none
findIndex(choices, text) ==
    IF \E i \in DOMAIN choices : choices[i] = text
    THEN (CHOOSE i \in DOMAIN choices :
            choices[i] = text /\ \A j \in DOMAIN choices : choices[j] = text => i <= j) - 1
    ELSE Null

\* QuizApp.renderChoices: the value it leaves in correctAnswerIndex
renderChoices(choices, correctAnswer) ==
    LET found == IF correctAnswer # "" THEN findIndex(choices, correctAnswer) ELSE 0
    IN IF found = Null THEN 0 ELSE found

\* QuizApp.showQuestion for the question at index idx
showQuestion(idx) ==
    /\ selectedAnswer' = Null
    /\ currentReviewId' = NoId
    /\ correctAnswerIndex' = renderChoices(quizQuestions[idx + 1].choice,
                                           quizQuestions[idx + 1].answer)
    /\ ui' = [result |-> FALSE, submit |-> TRUE, submitDisabled |-> TRUE,
              next |-> FALSE, complete |-> FALSE, choicesDisabled |-> FALSE]

\* a mutant of saveResult: the new record replaces the stored list
saveResultOverwrite(results, result, reviewId) ==
    << [review_id |-> reviewId,
        question_id |-> result.questionId,
        question_index |-> result.questionIndex,
        category |-> result.category,
        reviewer_name |-> result.reviewerName,
        answer |-> result.answer,
        correct_answer |-> result.correctAnswer,
        is_correct |-> result.isCorrect,
        comment |-> result.comment] >>

\* a mutant of saveResult: the id is returned and nothing is written
saveResultNoWrite(results, result, reviewId) == results

\* StorageManager.saveResult: the record list it writes (timestamp, keyword and
\* question text are left out)
saveResult(results, result, reviewId) ==
    Append(results,
        [review_id |-> reviewId,
         question_id |-> result.questionId,
         question_index |-> result.questionIndex,
         category |-> result.category,
         reviewer_name |-> result.reviewerName,
         answer |-> result.answer,
         correct_answer |-> result.correctAnswer,
         is_correct |-> result.isCorrect,
         comment |-> result.comment])

\* ----------------------------------------------------------------------- Spec
Init ==
    /\ MissIdle
    /\ AggIdle
    /\ AWS_CONFIG \in ConfigSet
    /\ page = "loading"
    /\ quizQuestions = Catalog
    /\ currentIndex = 0
    /\ selectedAnswer = Null
    /\ correctAnswerIndex = Null
    /\ currentReviewId = NoId
    \* init(): sessionStorage missing_questions_mode = 'true'
    /\ missingQuestionsMode \in BOOLEAN
    /\ missingQuestionIndexes = <<>>
    /\ currentMissingIndex = 0
    /\ resumeConfirmed \in BOOLEAN
    /\ ui = HiddenUi
    /\ localResults = <<>>
    \* the stores as earlier sessions left them
    /\ localProgress \in Null..(NumQuestions - 1)
    /\ remoteProgress = localProgress
    /\ remoteReviews \in {PriorRecords(S, 0) : S \in PriorRemoteSets}
    /\ calls = <<>>
    /\ nextId = 1
    /\ lastStep = Quiet("none")

\* the session starts on the question at index idx
StartAt(idx, missingMode, missing) ==
    /\ page' = "question"
    /\ missingQuestionsMode' = missingMode
    /\ missingQuestionIndexes' = missing
    /\ currentMissingIndex' = 0
    /\ currentIndex' = idx
    /\ showQuestion(idx)

\* window.location.href = 'index.html': the page, and every pending handler, is gone
LeaveForHome ==
    /\ page' = "home"
    /\ calls' = <<>>
    /\ ui' = HiddenUi

\* a mutant of reachedEnd: the comparison is strict
reachedEndStrict(progress, n) == progress # Null /\ progress > n - 1

\* loadQuestions, line 137: progress && progress.questionIndex >= this.questions.length - 1
reachedEnd(progress, n) == progress # Null /\ progress >= n - 1

\* a mutant of resumeIndex: 'continue' starts at the question after the marker
resumeIndexNext(progress, choice) == IF choice = "continue" THEN progress + 1 ELSE 0

\* loadQuestions, lines 191-197: the index the resume modal's answer starts at
resumeIndex(progress, choice) == IF choice = "continue" THEN progress ELSE 0

\* what GitHubLoader.fetch(this.quizPath) and the checks of lines 75-91 find:
\*   neterr      the fetch rejects
\*   notlist     the data is not an array
\*   empty       the array is empty
\*   nocategory  no question of the array has the session's category
\*   ok          this.questions = filteredQuestions
CatalogKinds == {"ok", "neterr", "notlist", "empty", "nocategory"}

\* a mutant of catalogFails: only a rejected fetch ends loadQuestions
catalogFailsOnRejectOnly(catalog) == catalog = "neterr"

\* loadQuestions, lines 73-91: one of the throws is reached
catalogFails(catalog) == catalog # "ok"

\* what loadQuestions did: the marker getProgress returned (read is FALSE when it
\* was not called), the outcome of its GET, resume_confirmed on entry, the
\* dialog shown and the reviewer's answer to it, the outcome of the catalog fetch
LoadStep(catalog, read, progress, progressKind, dialog, answer) ==
    [op |-> "load", outcome |-> "none", answer |-> answer,
     dialogs |-> IF dialog = "none" THEN {} ELSE {dialog},
     sent |-> FALSE, attempts |-> 0, threw |-> FALSE,
     read |-> read, progress |-> progress, progressKind |-> progressKind,
     confirmed |-> resumeConfirmed, catalog |-> catalog]

\* the page goes back to index.html without starting a session
LoadEndsAtHome(missing) ==
    /\ LeaveForHome
    /\ missingQuestionIndexes' = missing
    /\ UNCHANGED <<currentIndex, selectedAnswer, correctAnswerIndex, currentReviewId,
                   missingQuestionsMode, currentMissingIndex, resumeConfirmed>>

\* QuizApp.loadQuestions (on page load, or from the retry button of the error page)
LoadQuestions ==
    /\ page \in {"loading", "error"}
    /\ UNCHANGED <<missVars, aggVars, quizQuestions, storeVars, nextId>>
    /\ \E catalog \in CatalogKinds, listKind \in ResponseKinds, progressKind \in {"ok", "fail"},
          choice \in {"continue", "restart", "cancel", "solve-missing"} :
         LET missing == getMissingQuestions(AWS_CONFIG,
                            [kind |-> listKind, reviews |-> remoteReviews],
                            reviewerName, category, Len(quizQuestions)).value
             progress == getProgress(AWS_CONFIG, progressKind, remoteProgress, localProgress)
             kind == IF apiEnabled(AWS_CONFIG) THEN progressKind ELSE "none"
             n == Len(quizQuestions)
         IN IF catalogFails(catalog)
            THEN \* GitHubLoader.fetch rejected, or the data is no array, empty,
                 \* or without a question of the category: showError
                 /\ page' = "error"
                 /\ lastStep' = LoadStep(catalog, FALSE, Null, "none", "none", "none")
                 /\ UNCHANGED <<appVars, resumeConfirmed, ui, calls>>
            ELSE IF missingQuestionsMode
            THEN IF missing = <<>>
                 THEN /\ LoadEndsAtHome(missing)
                      /\ lastStep' = LoadStep(catalog, FALSE, Null, "none", "all-saved", "none")
                 ELSE /\ StartAt(missing[1], TRUE, missing)
                      /\ lastStep' = LoadStep(catalog, FALSE, Null, "none", "missing-alert", "none")
                      /\ UNCHANGED <<resumeConfirmed, calls>>
            ELSE IF reachedEnd(progress, n) /\ ~resumeConfirmed
            THEN IF missing # <<>>
                 THEN \* showMissingQuestionsResumeModal resolves solve-missing or cancel
                      /\ choice \in {"solve-missing", "cancel"}
                      /\ lastStep' = LoadStep(catalog, TRUE, progress, kind, "missing-modal", choice)
                      /\ IF choice = "solve-missing"
                         THEN /\ StartAt(missing[1], TRUE, missing)
                              /\ UNCHANGED <<resumeConfirmed, calls>>
                         ELSE LoadEndsAtHome(missing)
                 ELSE /\ LoadEndsAtHome(missing)
                      /\ lastStep' = LoadStep(catalog, TRUE, progress, kind, "all-saved", "none")
            ELSE IF progress # Null /\ progress >= 0 /\ progress < n
            THEN IF resumeConfirmed
                 THEN /\ StartAt(progress, FALSE, missingQuestionIndexes)
                      /\ resumeConfirmed' = FALSE
                      /\ lastStep' = LoadStep(catalog, TRUE, progress, kind, "none", "none")
                      /\ UNCHANGED calls
                 ELSE \* showProgressResumeModal
                      /\ choice \in {"continue", "restart", "cancel"}
                      /\ lastStep' = LoadStep(catalog, TRUE, progress, kind, "resume-modal", choice)
                      /\ IF choice = "cancel"
                         THEN /\ LeaveForHome
                              /\ UNCHANGED <<appVars, resumeConfirmed>>
                         ELSE /\ StartAt(resumeIndex(progress, choice), FALSE,
                                         missingQuestionIndexes)
                              /\ UNCHANGED <<resumeConfirmed, calls>>
            ELSE /\ StartAt(0, FALSE, missingQuestionIndexes)
                 /\ lastStep' = LoadStep(catalog, TRUE, progress, kind, "none", "none")
                 /\ UNCHANGED <<resumeConfirmed, calls>>

\* QuizApp.selectAnswer: a click on an enabled choice button
SelectAnswer ==
    /\ page = "question"
    /\ ~ui.choicesDisabled
    /\ ~(selectedAnswer # Null /\ ui.result)
    /\ \E index \in 0..(Len(quizQuestions[currentIndex + 1].choice) - 1) :
         selectedAnswer' = index
    /\ ui' = [ui EXCEPT !.submitDisabled = FALSE]
    /\ lastStep' = Quiet("select")
    /\ UNCHANGED <<missVars, aggVars, page, quizQuestions, currentIndex, correctAnswerIndex,
                   currentReviewId, missingQuestionsMode, missingQuestionIndexes,
                   currentMissingIndex, resumeConfirmed, storeVars, calls, nextId>>

\* a mutant of offersNext: the catalog's last index decides in both modes
offersNextByCatalog == currentIndex < Len(quizQuestions) - 1

\* submitAnswer, lines 373-387: which of the two buttons replaces the submit button
offersNext ==
    IF missingQuestionsMode
    THEN currentMissingIndex < Len(missingQuestionIndexes) - 1
    ELSE currentIndex < Len(quizQuestions) - 1

\* QuizApp.submitAnswer: a click on the enabled submit button; localStorage.setItem
\* may throw in saveResult, which rethrows
SubmitAnswer ==
    /\ page = "question"
    /\ ui.submit /\ ~ui.submitDisabled
    /\ selectedAnswer # Null /\ correctAnswerIndex # Null
    /\ UNCHANGED <<missVars, aggVars, page, quizQuestions, currentIndex, selectedAnswer,
                   correctAnswerIndex, missingQuestionsMode, missingQuestionIndexes,
                   currentMissingIndex, resumeConfirmed, localProgress, remoteReviews,
                   remoteProgress, calls>>
    /\ \E stored \in BOOLEAN :
         LET question == quizQuestions[currentIndex + 1]
             isCorrect == selectedAnswer = correctAnswerIndex
             selectedText == question.choice[selectedAnswer + 1]
             correctText == question.choice[correctAnswerIndex + 1]
             result == [questionId |-> question.questionID,
                        questionIndex |-> currentIndex,
                        category |-> question.category,
                        reviewerName |-> reviewerName,
                        answer |-> selectedText,
                        correctAnswer |-> correctText,
                        isCorrect |-> isCorrect,
                        comment |-> ""]
         IN IF stored
            THEN /\ localResults' = saveResult(localResults, result, nextId)
                 /\ currentReviewId' = nextId
                 /\ nextId' = nextId + 1
                 /\ ui' = [result |-> TRUE, submit |-> FALSE, submitDisabled |-> ui.submitDisabled,
                           next |-> offersNext, complete |-> ~offersNext,
                           choicesDisabled |-> TRUE]
                 /\ lastStep' = Quiet("submit")
            ELSE /\ lastStep' = [Quiet("submit") EXCEPT !.threw = TRUE]
                 /\ UNCHANGED <<localResults, currentReviewId, nextId, ui>>

\* document.getElementById('comment-input').value: the reviewer types a comment
\* with white space around it
CommentInputs == {" c"}
\* String.prototype.trim
trim(text) == IF text = " c" THEN "c" ELSE text

\* a mutant of updateComment: the comment is written to every record
updateCommentEvery(results, reviewId, comment) ==
    [i \in DOMAIN results |-> [results[i] EXCEPT !.comment = comment]]

\* StorageManager.updateComment: the record list after the call
updateComment(results, reviewId, comment) ==
    [i \in DOMAIN results |->
        IF results[i].review_id = reviewId /\ \A j \in 1..(i - 1) : results[j].review_id # reviewId
        THEN [results[i] EXCEPT !.comment = comment]
        ELSE results[i]]

\* results.find(r => r.review_id === this.currentReviewId) finds a record
hasReview(results, reviewId) == \E i \in DOMAIN results : results[i].review_id = reviewId
findReview(results, reviewId) ==
    results[CHOOSE i \in DOMAIN results :
              /\ results[i].review_id = reviewId
              /\ \A j \in DOMAIN results : results[j].review_id = reviewId => i <= j]

\* localStorage.setItem: it writes, or throws (QuotaExceededError)
SetItemKinds == {"ok", "quota"}

\* StorageManager.updateComment as a call: the record list it leaves and what
\* it returns; a throw of setItem is caught and false is returned
updateCommentCall(results, reviewId, comment, setItem) ==
    IF ~hasReview(results, reviewId)
    THEN [results |-> results, value |-> FALSE, threw |-> FALSE]
    ELSE IF setItem = "ok"
    THEN [results |-> updateComment(results, reviewId, comment), value |-> TRUE,
          threw |-> FALSE]
    ELSE [results |-> results, value |-> FALSE, threw |-> FALSE]

\* a mutant of retryDecision: retryCount <= maxRetries
retryDecisionOffByOne(retryCount, retry) ==
    IF retryCount <= maxRetries THEN (IF retry THEN "again" ELSE "break") ELSE "break"

\* a mutant of retryDecision: the third failure throws out of saveToServerWithRetry
retryDecisionThrows(retryCount, retry) ==
    IF retryCount < maxRetries THEN (IF retry THEN "again" ELSE "break") ELSE "throw"

\* saveToServerWithRetry, lines 431-461, after a failed attempt and retryCount++:
\* confirm() while retryCount < maxRetries, alert() and break once it is reached
retryDecision(retryCount, retry) ==
    IF retryCount < maxRetries THEN (IF retry THEN "again" ELSE "break") ELSE "break"

\* the dialog saveToServerWithRetry shows after a failed attempt
retryDialog(retryCount) == IF retryCount < maxRetries THEN "confirm" ELSE "alert"

RemoveAt(seq, k) == SubSeq(seq, 1, k - 1) \o SubSeq(seq, k + 1, Len(seq))

\* nextQuestion, lines 544-558: the next question of the traversal is shown, if any
Advance ==
    IF missingQuestionsMode
    THEN IF currentMissingIndex < Len(missingQuestionIndexes) - 1
         THEN /\ currentMissingIndex' = currentMissingIndex + 1
              /\ currentIndex' = missingQuestionIndexes[currentMissingIndex + 2]
              /\ showQuestion(missingQuestionIndexes[currentMissingIndex + 2])
              /\ UNCHANGED <<missingQuestionsMode, missingQuestionIndexes>>
         ELSE UNCHANGED <<appVars, ui>>
    ELSE IF currentIndex < Len(quizQuestions) - 1
         THEN /\ currentIndex' = currentIndex + 1
              /\ showQuestion(currentIndex + 1)
              /\ UNCHANGED <<missingQuestionsMode, missingQuestionIndexes, currentMissingIndex>>
         ELSE UNCHANGED <<appVars, ui>>

\* a mutant of savedMarker: the local marker is left as it was
savedMarkerKept(marker, questionIndex) == marker

\* StorageManager.saveProgress, lines 350-359: the local marker after
\* progressData[key] = {..., questionIndex} and localStorage.setItem
savedMarker(marker, questionIndex) == questionIndex

\* a mutant of writesProgress: the marker is written in either mode
writesProgressAlways(missingMode) == TRUE

\* nextQuestion, line 540: if (!this.missingQuestionsMode) saveProgress(...)
writesProgress(missingMode) == ~missingMode

\* a mutant of progressFollows: the marker is written after a successful save only
progressFollowsSuccess(saved) == saved

\* nextQuestion, lines 536-541: saveToServerWithRetry returns no value and the
\* saveProgress call that follows it does not depend on how the save ended
progressFollows(saved) == TRUE

\* what follows saveToServerWithRetry in nextQuestion (lines 539-558: saveProgress
\* writes the local marker, then awaits the PUT) and in completeReview (lines
\* 579-610); rest holds the other pending invocations, saved tells whether the
\* record was appended remotely
AfterSave(call, rest, saved) ==
    IF call.kind = "next"
    THEN /\ page' = page
         /\ IF writesProgress(missingQuestionsMode) /\ progressFollows(saved)
            THEN /\ localProgress' = savedMarker(localProgress, currentIndex)
                 /\ IF apiEnabled(AWS_CONFIG)
                    THEN /\ calls' = Append(rest, [call EXCEPT !.pc = "put", !.index = currentIndex])
                         /\ UNCHANGED <<appVars, ui>>
                    ELSE /\ calls' = rest
                         /\ Advance
            ELSE /\ localProgress' = localProgress
                 /\ calls' = rest
                 /\ Advance
    ELSE /\ LeaveForHome
         \* clearProgress, in Sequential mode only
         /\ localProgress' = IF missingQuestionsMode THEN localProgress ELSE Null
         /\ UNCHANGED appVars

\* the start of nextQuestion (lines 524-537) and of completeReview (lines 564-577):
\* updateComment, then saveToServerWithRetry on the record read back from the
\* local store. With the API disabled saveReviewToAPI returns false at once and
\* the retry loop runs to its end without a fetch.
ClickAdvance(kind) ==
    /\ page = "question"
    /\ Len(calls) < MaxCalls
    /\ UNCHANGED <<missVars, aggVars, quizQuestions, resumeConfirmed, remoteReviews,
                   remoteProgress, nextId>>
    /\ \E typed \in CommentInputs, skipAt \in 1..maxRetries :
         LET call == [kind |-> kind, pc |-> "post", from |-> currentIndex,
                      reviewData |-> findReview(localResults', currentReviewId),
                      retryCount |-> 0, attempts |-> 1, index |-> Null]
             noCall == [kind |-> kind, pc |-> "none", from |-> currentIndex,
                        reviewData |-> <<>>, retryCount |-> 0, attempts |-> 0, index |-> Null]
         IN /\ localResults' = IF currentReviewId # NoId
                               THEN updateComment(localResults, currentReviewId, trim(typed))
                               ELSE localResults
            /\ IF currentReviewId # NoId /\ hasReview(localResults', currentReviewId)
               THEN IF apiEnabled(AWS_CONFIG)
                    THEN /\ calls' = Append(calls, call)
                         /\ lastStep' = [Quiet(kind) EXCEPT !.sent = TRUE, !.attempts = 1]
                         /\ UNCHANGED <<page, appVars, ui, localProgress>>
                    ELSE /\ AfterSave(noCall, calls, FALSE)
                         /\ lastStep' = [Quiet(kind) EXCEPT
                                !.outcome = "fail",
                                !.answer = IF skipAt < maxRetries THEN "skip" ELSE "retry",
                                !.dialogs = {retryDialog(n) : n \in 1..skipAt}]
               ELSE /\ AfterSave(noCall, calls, FALSE)
                    /\ lastStep' = Quiet(kind)

\* QuizApp.nextQuestion: a click on the next button
NextClick ==
    /\ ui.next
    /\ ClickAdvance("next")

\* QuizApp.completeReview: a click on the complete button
CompleteClick ==
    /\ ui.complete
    /\ ClickAdvance("complete")

\* the outcomes of the POST in saveReviewToAPI:
\*   ok       the remote appended the record and answered 2xx with a JSON body
\*   neterr   fetch rejected; nothing was appended
\*   http     response.ok is false; nothing was appended
\*   badjson  response.json() rejected; nothing was appended
PostKinds == {"ok", "neterr", "http", "badjson"}

\* a mutant of saveReviewToAPI: no catch around the fetch
saveReviewToAPINoCatch(config, response) ==
    [value |-> apiEnabled(config) /\ response = "ok",
     threw |-> apiEnabled(config) /\ response # "ok"]

\* StorageManager.saveReviewToAPI: the boolean it resolves to, and whether it rejects
saveReviewToAPI(config, response) ==
    [value |-> apiEnabled(config) /\ response = "ok", threw |-> FALSE]

\* the summary of a step of saveToServerWithRetry after its POST returned: whether
\* the remote refused the POST and whether saveReviewToAPI rejected
PostStep(response, api) ==
    Quiet("post") @@ [refused |-> response # "ok", apiThrew |-> api.threw]

\* the POST of saveReviewToAPI returns to saveToServerWithRetry, whose own
\* try/catch treats a rejection like a false
PostResponse ==
    /\ page = "question"
    /\ UNCHANGED <<missVars, aggVars, quizQuestions, resumeConfirmed, localResults,
                   remoteProgress, nextId>>
    /\ \E k \in DOMAIN calls, response \in PostKinds, retry \in BOOLEAN :
         LET call == calls[k]
             api == saveReviewToAPI(AWS_CONFIG, response)
             outcome == IF api.value THEN "ok" ELSE "fail"
             retryCount == call.retryCount + 1
             decision == retryDecision(retryCount, retry)
         IN /\ call.pc = "post"
            /\ remoteReviews' = IF response = "ok"
                                THEN Append(remoteReviews, call.reviewData)
                                ELSE remoteReviews
            /\ IF outcome = "ok"
               THEN /\ AfterSave(call, RemoveAt(calls, k), TRUE)
                    /\ lastStep' = [PostStep(response, api) EXCEPT !.outcome = "ok",
                                                         !.attempts = call.attempts]
               ELSE IF decision = "again"
               THEN /\ calls' = [calls EXCEPT ![k].retryCount = retryCount,
                                              ![k].attempts = call.attempts + 1]
                    /\ lastStep' = [PostStep(response, api) EXCEPT
                           !.outcome = "fail", !.answer = "retry",
                           !.dialogs = {retryDialog(retryCount)},
                           !.sent = TRUE, !.attempts = call.attempts + 1]
                    /\ UNCHANGED <<page, appVars, ui, localProgress>>
               ELSE IF decision = "break"
               THEN /\ AfterSave(call, RemoveAt(calls, k), FALSE)
                    /\ lastStep' = [PostStep(response, api) EXCEPT
                           !.outcome = "fail",
                           !.answer = IF retryDialog(retryCount) = "confirm" THEN "skip" ELSE "none",
                           !.dialogs = {retryDialog(retryCount)},
                           !.attempts = call.attempts]
               ELSE \* an exception leaves saveToServerWithRetry: the handler is over
                    /\ calls' = RemoveAt(calls, k)
                    /\ lastStep' = [PostStep(response, api) EXCEPT !.outcome = "fail", !.threw = TRUE,
                                                         !.attempts = call.attempts]
                    /\ UNCHANGED <<page, appVars, ui, localProgress>>

\* the PUT of saveProgressToAPI returns to saveProgress and nextQuestion goes on
PutResponse ==
    /\ page = "question"
    /\ UNCHANGED <<missVars, aggVars, page, quizQuestions, resumeConfirmed, localResults,
                   localProgress, remoteReviews, nextId>>
    /\ \E k \in DOMAIN calls, outcome \in {"ok", "fail"} :
         /\ calls[k].pc = "put"
         /\ remoteProgress' = IF outcome = "ok" THEN calls[k].index ELSE remoteProgress
         /\ calls' = RemoveAt(calls, k)
         /\ Advance
         /\ lastStep' = [Quiet("put") EXCEPT !.outcome = outcome]

\* QuizApp.goHome from the back-home button, confirmed
GoHome ==
    /\ page = "question"
    /\ LeaveForHome
    /\ lastStep' = [Quiet("home") EXCEPT !.dialogs = {"confirm-home"}]
    /\ UNCHANGED <<missVars, aggVars, quizQuestions, appVars, resumeConfirmed, storeVars, nextId>>

Next ==
    \/ LoadQuestions
    \/ SelectAnswer
    \/ SubmitAnswer
    \/ NextClick
    \/ CompleteClick
    \/ PostResponse
    \/ PutResponse
    \/ GoHome

Spec == Init /\ [][Next]_vars

\* every pending remote call eventually returns: the fetch settles and the
\* dialogs that follow it are answered
SpecFair == Spec /\ WF_vars(PostResponse) /\ WF_vars(PutResponse)

\* ------------------------------------------------------------- session claims
\* C5: every answer record made by submitAnswer has
\* is_correct = (answer text = correct_answer text)
C5_IsCorrectIffTextsEqual ==
    \A i \in DOMAIN localResults :
        localResults[i].is_correct = (localResults[i].answer = localResults[i].correct_answer)

\* C6: a remote append is attempted, and a record is appended remotely by this
\* session, only for a record the local store holds
C6_AppendOnlyForLocalRecord ==
    /\ \A k \in DOMAIN calls :
          calls[k].pc = "post" => hasReview(localResults, calls[k].reviewData.review_id)
    /\ \A i \in DOMAIN remoteReviews :
          remoteReviews[i].review_id > NoId => hasReview(localResults, remoteReviews[i].review_id)

\* a second attempt for the second record is in flight
C6_Witness ==
    \E k \in DOMAIN calls :
        /\ calls[k].pc = "post"
        /\ calls[k].attempts = 2
        /\ calls[k].reviewData.question_index = 1
        /\ Len(localResults) = 2

\* C7: while the result feedback is on screen the local store holds the record of
\* that submission, and a submission whose local write threw shows no feedback
C7_FeedbackOnlyAfterLocalWrite ==
    /\ (page = "question" /\ ui.result) =>
          /\ hasReview(localResults, currentReviewId)
          /\ findReview(localResults, currentReviewId).question_index = currentIndex
    /\ (lastStep.op = "submit" /\ lastStep.threw) => ~ui.result

\* the feedback for the second question is shown right after its submission
C7_Witness ==
    /\ page = "question"
    /\ ui.result
    /\ lastStep.op = "submit"
    /\ ~lastStep.threw
    /\ currentIndex = 1

\* the attempts of one saveToServerWithRetry call that have failed when lastStep was taken
failedAttempts == lastStep.attempts - (IF lastStep.sent THEN 1 ELSE 0)

\* at most maxRetries attempts, none after a success, none after a skip
BoundedAttempts ==
    /\ \A k \in DOMAIN calls : calls[k].attempts <= maxRetries
    /\ lastStep.op = "post" =>
          /\ lastStep.attempts <= maxRetries
          /\ lastStep.outcome = "ok" => ~lastStep.sent /\ lastStep.dialogs = {}
          /\ lastStep.answer = "skip" => ~lastStep.sent

\* C8 as stated: bounded attempts, and the retry-or-skip choice after each failed attempt
C8_ChoiceAfterEveryFailure ==
    /\ BoundedAttempts
    /\ (lastStep.op = "post" /\ lastStep.outcome = "fail") => "confirm" \in lastStep.dialogs

\* C8 as amended: bounded attempts, the retry-or-skip choice after each failed
\* attempt but the last allowed one, and a notice without a choice after that one
C8_ChoiceUntilLastAttempt ==
    /\ BoundedAttempts
    /\ (lastStep.op = "post" /\ lastStep.outcome = "fail") =>
          /\ lastStep.dialogs = {IF failedAttempts < maxRetries THEN "confirm" ELSE "alert"}
          /\ lastStep.sent => (lastStep.answer = "retry" /\ failedAttempts < maxRetries)
          /\ ~lastStep.sent => lastStep.answer = (IF failedAttempts < maxRetries THEN "skip" ELSE "none")

\* the third attempt has failed and the notice was shown
C8_Witness ==
    /\ lastStep.op = "post"
    /\ lastStep.outcome = "fail"
    /\ lastStep.attempts = maxRetries
    /\ lastStep.dialogs = {"alert"}

\* C9: a next or complete click on question i whose remote calls all return is
\* followed by another question on screen, or by the end of the session
C9_NextEventuallyAdvances ==
    \A i \in 0..(NumQuestions - 1) :
        (page = "question" /\ currentIndex = i /\ \E k \in DOMAIN calls : calls[k].from = i)
            ~> (page # "question" \/ currentIndex # i)

\* the second question is on screen after the progress write failed and nothing
\* was appended remotely
C9_Witness ==
    /\ page = "question"
    /\ lastStep.op = "put"
    /\ lastStep.outcome = "fail"
    /\ currentIndex = 1
    /\ ui.submit
    /\ \A i \in DOMAIN remoteReviews : remoteReviews[i].review_id < NoId

\* C10: at most one remote operation of the session is in flight
C10_OneRemoteOperationInFlight ==
    Cardinality({k \in DOMAIN calls : calls[k].pc \in {"post", "put"}}) <= 1

\* C11: an answer record (one review_id) is appended to the remote store at most once
C11_AppendedAtMostOnce ==
    \A i, j \in DOMAIN remoteReviews :
        remoteReviews[i].review_id = remoteReviews[j].review_id => i = j

\* the progress writes whose PUT has not returned
PutsOf(cs) == {k \in DOMAIN cs : cs[k].pc = "put"}

C16_MissingModeKeepsMarkers ==
    [][(page = "question" /\ missingQuestionsMode) =>
           (localProgress' = localProgress /\ remoteProgress' = remoteProgress)]_vars

\* a Missing-Only session has gone on to its second question and has completed,
\* with a marker in place
C16_Witness ==
    /\ missingQuestionsMode
    /\ page = "home"
    /\ lastStep.op \in {"post", "complete"}
    /\ Len(localResults) = 2
    /\ localProgress # Null

\* -------------------------------------------------------------- SpecStart
\* the start of a session on a catalog one question longer, with the two markers
\* as earlier sessions and other devices left them: equal, one of them absent
\* (a failed PUT, a cleared local marker), different, or left by a longer catalog
InitStart ==
    /\ MissIdle
    /\ AggIdle
    /\ AWS_CONFIG \in ConfigSet
    /\ page = "loading"
    /\ quizQuestions = CatalogOf(NumQuestions + 1)
    /\ currentIndex = 0
    /\ selectedAnswer = Null
    /\ correctAnswerIndex = Null
    /\ currentReviewId = NoId
    /\ missingQuestionsMode \in BOOLEAN
    /\ missingQuestionIndexes = <<>>
    /\ currentMissingIndex = 0
    /\ resumeConfirmed \in BOOLEAN
    /\ ui = HiddenUi
    /\ localResults = <<>>
    /\ localProgress \in Null..(NumQuestions + 1)
    /\ remoteProgress \in Null..(NumQuestions + 1)
    /\ remoteReviews \in {PriorRecords(S, 0) : S \in PriorRemoteSetsOf(NumQuestions + 1)}
    /\ calls = <<>>
    /\ nextId = 1
    /\ lastStep = Quiet("none")

NextStart ==
    \/ LoadQuestions
    \/ SelectAnswer
    \/ GoHome

SpecStart == InitStart /\ [][NextStart]_vars

\* getProgress was called by the load that has just run
ProgressRead == lastStep.op = "load" /\ lastStep.read

\* the remote answered the GET of getProgressFromAPI with a marker
RemoteReturnsMarker ==
    apiEnabled(AWS_CONFIG) /\ lastStep.progressKind = "ok" /\ remoteProgress # Null

\* C13: getProgress returns the remote marker when the remote returns one, and
\* the local marker (or absent, when there is none) otherwise
C13_RemotePreferredLocalFallback ==
    ProgressRead =>
        /\ lastStep.progress = (IF RemoteReturnsMarker THEN remoteProgress ELSE localProgress)
        /\ page # "error"

\* the remote returned a marker that differs from the local one
C13_Witness ==
    /\ ProgressRead
    /\ RemoteReturnsMarker
    /\ localProgress # Null
    /\ localProgress # remoteProgress
    /\ lastStep.progress = remoteProgress

\* completeReview has just ended a Sequential pass
SequentialPassCompleted ==
    page = "home" /\ ~missingQuestionsMode /\ lastStep.op \in {"post", "complete"}

\* C14: after completeReview in a Sequential pass, a getProgress whose remote
\* call is answered returns absent
C14_MarkerAbsentAfterComplete ==
    SequentialPassCompleted => getProgress(AWS_CONFIG, "ok", remoteProgress, localProgress) = Null

\* the load that has just run read a marker at or past the last index
MarkerAtEnd ==
    /\ ProgressRead
    /\ lastStep.progress # Null
    /\ lastStep.progress >= Len(quizQuestions) - 1

\* the missing-record check ran and the load ended in a Missing-Only session, in
\* the notice that everything is saved, or in a cancel
CheckedBeforeStart ==
    /\ lastStep.dialogs \in {{"missing-modal"}, {"all-saved"}}
    /\ \/ page = "home"
       \/ page = "question" /\ missingQuestionsMode /\ lastStep.answer = "solve-missing"

\* C17 as stated: every Sequential start on a marker at the last index runs the
\* missing-record check and never starts a Sequential session
C17_EndMarkerAlwaysChecked == MarkerAtEnd => CheckedBeforeStart

\* C17 as amended: the same, for a start whose resume was not already confirmed
\* on the entry page
C17_EndMarkerCheckedUnlessConfirmed ==
    (MarkerAtEnd /\ ~lastStep.confirmed) => CheckedBeforeStart

\* a marker at the last index, a record missing at index 1, and the reviewer
\* chose to solve the missing questions
C17_Witness ==
    /\ MarkerAtEnd
    /\ ~lastStep.confirmed
    /\ lastStep.progress = Len(quizQuestions) - 1
    /\ lastStep.answer = "solve-missing"
    /\ page = "question"
    /\ missingQuestionsMode
    /\ missingQuestionIndexes = <<1>>
    /\ currentIndex = 1

\* a Sequential session shows the question at index i
StartedAt(i) ==
    page = "question" /\ ~missingQuestionsMode /\ currentIndex = i /\ ui.submit

\* C18: on a Sequential start with a marker before the last index, 'continue'
\* starts at the marker's index, 'restart' at index 0 and 'cancel' shows no
\* question; a resume confirmed on the entry page starts at the marker's index
C18_DecisionDeterminesStart ==
    (/\ ProgressRead
     /\ lastStep.progress # Null
     /\ lastStep.progress >= 0
     /\ lastStep.progress < Len(quizQuestions) - 1) =>
        /\ lastStep.confirmed => (lastStep.dialogs = {} /\ StartedAt(lastStep.progress))
        /\ ~lastStep.confirmed =>
              /\ lastStep.dialogs = {"resume-modal"}
              /\ lastStep.answer \in {"continue", "restart", "cancel"}
        /\ lastStep.answer = "continue" => StartedAt(lastStep.progress)
        /\ lastStep.answer = "restart" => StartedAt(0)
        /\ lastStep.answer = "cancel" => (page = "home" /\ ui = HiddenUi)

\* 'continue' on a marker at index 1 of three questions
C18_Witness ==
    /\ ProgressRead
    /\ lastStep.progress = 1
    /\ Len(quizQuestions) = 3
    /\ lastStep.answer = "continue"
    /\ StartedAt(1)

\* C15: a POST of saveReviewToAPI that the remote refused resolves to false
\* without rejecting, and the step leaves the local answer records as they were
C15_AppendFailureReturnsFalse ==
    [][(lastStep'.op = "post" /\ lastStep'.refused) =>
           /\ lastStep'.outcome = "fail"
           /\ ~lastStep'.apiThrew
           /\ localResults' = localResults
           /\ \A k \in DOMAIN calls' :
                 calls'[k].pc = "post" => hasReview(localResults', calls'[k].reviewData.review_id)]_vars

\* a refused POST was answered with a retry and the record is in the local store
C15_Witness ==
    /\ lastStep.op = "post"
    /\ lastStep.refused
    /\ lastStep.answer = "retry"
    /\ \E k \in DOMAIN calls :
          calls[k].pc = "post" /\ hasReview(localResults, calls[k].reviewData.review_id)

\* --------------------------------------------------------- SpecLoadReviews
\* records in each of the two stores when the analytics page is opened
MaxLoad == 1

\* the analytics page is opened with a remote list answer and a local store
InitLoadReviews ==
    /\ AWS_CONFIG \in ConfigSet
    /\ mqResponse \in [kind : ResponseKinds \ {"ok"}, reviews : {<<>>}]
                      \cup [kind : {"ok"}, reviews : SeqsUpTo(AggRecords, MaxLoad)]
    /\ mqArgs = [reviewerName |-> "alice", category |-> "food", n |-> 1]
    /\ mqResult = [done |-> TRUE, value |-> <<>>, threw |-> FALSE]
    /\ agPc = "start"
    /\ agStore = <<>>
    /\ questions \in AggCatalogs
    /\ reviews = <<>>
    /\ selectedReviewers = {}
    /\ enrichedReviews = <<>>
    /\ authorStats = <<>>
    /\ reviewerStats = <<>>
    /\ questionStats = <<>>
    /\ overallStats = [accuracy |-> 0, reviewerCount |-> 0]
    /\ page = "idle"
    /\ quizQuestions = <<>>
    /\ currentIndex = 0
    /\ selectedAnswer = Null
    /\ correctAnswerIndex = Null
    /\ currentReviewId = NoId
    /\ missingQuestionsMode = FALSE
    /\ missingQuestionIndexes = <<>>
    /\ currentMissingIndex = 0
    /\ resumeConfirmed = FALSE
    /\ ui = HiddenUi
    /\ localResults \in SeqsUpTo(AggRecords, MaxLoad)
    /\ localProgress = Null
    /\ remoteReviews = <<>>
    /\ remoteProgress = Null
    /\ calls = <<>>
    /\ nextId = 1
    /\ lastStep = Quiet("none")

\* Analytics.init with loadData: loadReviews, the throw on an empty list (init
\* catches it and shows the error), initializeReviewerFilter, analyzeData
LoadData ==
    /\ agPc = "start"
    /\ reviews' = loadReviews(AWS_CONFIG, mqResponse, localResults)
    /\ IF reviews' = <<>>
       THEN /\ agPc' = "error"
            /\ UNCHANGED <<selectedReviewers, enrichedReviews, authorStats, reviewerStats,
                           questionStats, overallStats>>
       ELSE /\ agPc' = "analyzed"
            /\ selectedReviewers' = allReviewers(reviews')
            /\ analyzeData(questions, reviews', selectedReviewers')
    /\ UNCHANGED <<agStore, questions, missVars, sessVars>>

NextLoadReviews ==
    \/ LoadData
    \/ ToggleReviewer

SpecLoadReviews == InitLoadReviews /\ [][NextLoadReviews]_vars

\* the remote list call failed, answered a malformed payload, or listed no record
RemoteGivesNoRecords ==
    mqResponse.kind # "ok" \/ mqResponse.reviews = <<>>

\* C19: when the remote gives no records the records loaded are the local
\* store's, and the load fails only when the local store is empty as well
C19_RemoteFailureFallsBackToLocal ==
    (agPc \in {"analyzed", "error"} /\ RemoteGivesNoRecords) =>
        /\ reviews = localResults
        /\ agPc = "error" <=> localResults = <<>>

\* an answer without a list, with the API configured, and the local record loaded
C19_Witness ==
    /\ agPc = "analyzed"
    /\ AWS_CONFIG.apiEndpoint
    /\ mqResponse.kind = "notlist"
    /\ Len(localResults) = 1
    /\ reviews = localResults

RoundsTo(acc, num, den) ==
    LET diff == acc * den - 1000 * num
    IN 2 * (IF diff < 0 THEN -diff ELSE diff) <= den

\* positions of the enriched list
EnrichedOf(r) == {i \in DOMAIN enrichedReviews : reviewerOf(enrichedReviews[i]) = r}
CorrectIn(S) == {i \in S : isCorrectOf(enrichedReviews[i])}
AuthorAt(i) == enrichedReviews[i].question.authored_by
KnownAuthors == {AuthorAt(i) : i \in DOMAIN enrichedReviews} \ {"", "Unknown"}

\* C21: with an empty reviewer selection, or when no record survives the two
\* filters, the by-question, by-reviewer and by-author groups are empty and the
\* overall statistic is accuracy 0 with reviewerCount 0.
C21_EmptySelectionGivesEmptyGroups ==
    (agPc = "analyzed" /\ (selectedReviewers = {} \/ enrichedReviews = <<>>)) =>
        /\ enrichedReviews = <<>>
        /\ DOMAIN authorStats = {}
        /\ DOMAIN reviewerStats = {}
        /\ questionStats = <<>>
        /\ overallStats = [accuracy |-> 0, reviewerCount |-> 0]

\* C21 witness: every reviewer was deselected while the loaded records hold a
\* record of a catalog question.
C21_Witness ==
    /\ agPc = "analyzed"
    /\ selectedReviewers = {}
    /\ \E i \in DOMAIN reviews : questionMapHas(questions, questionIdOf(reviews[i]))
    /\ overallStats.reviewerCount = 0

\* C22: for a single selected reviewer with one record per answered question,
\* by-reviewer gives correct = the number of correct records, total = the
\* number of answered questions and accuracy = correct/total*100; the overall
\* accuracy is that reviewer's accuracy; each author's accuracy is that
\* reviewer's accuracy on the author's questions.
C22_SingleReviewerStatistics ==
    \A r \in AggReviewers :
        ( /\ agPc = "analyzed"
          /\ selectedReviewers = {r}
          /\ enrichedReviews # <<>>
          /\ \A q \in {"q1", "q2", "qX"} : Cardinality(RecordsOf(r, q)) <= 1 ) =>
            /\ DOMAIN reviewerStats = {r}
            /\ reviewerStats[r].correct = Cardinality(CorrectIn(DOMAIN enrichedReviews))
            /\ reviewerStats[r].total = Len(enrichedReviews)
            /\ RoundsTo(reviewerStats[r].accuracy, reviewerStats[r].correct,
                        reviewerStats[r].total)
            /\ overallStats = [accuracy |-> reviewerStats[r].accuracy, reviewerCount |-> 1]
            /\ DOMAIN authorStats = KnownAuthors
            /\ \A a \in DOMAIN authorStats :
                 LET onAuthor == {i \in DOMAIN enrichedReviews : AuthorAt(i) = a}
                 IN RoundsTo(authorStats[a].accuracy, Cardinality(CorrectIn(onAuthor)),
                             Cardinality(onAuthor))

\* C22 witness: bob is correct on q1 of author A and wrong on q2 of author B:
\* 1 of 2 and 50.0, overall 50.0, A 100.0, B 0.0.
C22_Witness ==
    /\ agPc = "analyzed"
    /\ selectedReviewers = {"bob"}
    /\ Len(enrichedReviews) = 2
    /\ \E i, j \in DOMAIN enrichedReviews :
         /\ questionIdOf(enrichedReviews[i]) = "q1" /\ AuthorAt(i) = "A"
         /\ isCorrectOf(enrichedReviews[i])
         /\ questionIdOf(enrichedReviews[j]) = "q2" /\ AuthorAt(j) = "B"
         /\ ~isCorrectOf(enrichedReviews[j])
    /\ reviewerStats["bob"] = [correct |-> 1, total |-> 2, accuracy |-> 500]
    /\ overallStats.accuracy = 500
    /\ authorStats["A"].accuracy = 1000
    /\ authorStats["B"].accuracy = 0

\* the loaded records that pass both filters of analyzeData
Qualifying ==
    {i \in DOMAIN reviews : /\ questionMapHas(questions, questionIdOf(reviews[i]))
                            /\ reviewerOf(reviews[i]) \in selectedReviewers}

\* C23: every record of the enriched set references a questionId of the
\* catalog and a reviewer of the selection; a record of an unknown question is
\* in no statistic group (the groups count the qualifying records only).
C23_EnrichedRecordsAreKnown ==
    agPc = "analyzed" =>
        /\ \A i \in DOMAIN enrichedReviews :
             /\ questionMapHas(questions, questionIdOf(enrichedReviews[i]))
             /\ reviewerOf(enrichedReviews[i]) \in selectedReviewers
        /\ Len(enrichedReviews) = Cardinality(Qualifying)
        /\ \A i \in DOMAIN questionStats :
             questionMapHas(questions, questionStats[i].questionId)
        /\ \A r \in DOMAIN reviewerStats :
             reviewerStats[r].total =
                Cardinality({questionIdOf(reviews[i]) :
                               i \in {j \in Qualifying : reviewerOf(reviews[j]) = r}})
        /\ \A a \in DOMAIN authorStats :
             \E i \in Qualifying :
                questionMapGet(questions, questionIdOf(reviews[i])).authored_by = a

\* C23 witness: a selected reviewer has a record of a catalog question and one
\* of a question that is in no catalog; the reviewer's total is 1.
C23_Witness ==
    /\ agPc = "analyzed"
    /\ \E i, j \in DOMAIN reviews :
         /\ reviewerOf(reviews[i]) = reviewerOf(reviews[j])
         /\ reviewerOf(reviews[i]) \in selectedReviewers
         /\ questionIdOf(reviews[i]) = "qX"
         /\ questionMapHas(questions, questionIdOf(reviews[j]))
         /\ reviewerOf(reviews[i]) \in DOMAIN reviewerStats
         /\ reviewerStats[reviewerOf(reviews[i])].total = 1

\* the sum of the accuracies of the by-reviewer group
RECURSIVE AccuracySum(_)
AccuracySum(rs) ==
    IF rs = {} THEN 0
    ELSE LET r == CHOOSE x \in rs : TRUE
         IN reviewerStats[r].accuracy + AccuracySum(rs \ {r})

PooledCorrect == Cardinality({p \in (DOMAIN reviewerStats) \X {"q1", "q2"} :
                    RecordsOf(p[1], p[2]) # {}
                    /\ isCorrectOf(enrichedReviews[FirstOf(p[1], p[2])])})
PooledTotal == Cardinality({p \in (DOMAIN reviewerStats) \X {"q1", "q2"} :
                    RecordsOf(p[1], p[2]) # {}})

\* C25: the overall accuracy is the arithmetic mean of the accuracies of the
\* by-reviewer group, each reviewer weighted equally, rounded to one decimal;
\* reviewerCount is the size of that group.
C25_OverallIsMeanOfReviewers ==
    (agPc = "analyzed" /\ DOMAIN reviewerStats # {}) =>
        LET n == Cardinality(DOMAIN reviewerStats)
            diff == 10 * (n * overallStats.accuracy - AccuracySum(DOMAIN reviewerStats))
        IN /\ overallStats.reviewerCount = n
           /\ (IF diff < 0 THEN -diff ELSE diff) <= 5 * n

\* C25 witness: one reviewer has 1 of 1 and the other 0 of 2: the mean is 50.0
\* while the pooled ratio is 1 of 3.
C25_Witness ==
    /\ agPc = "analyzed"
    /\ Cardinality(DOMAIN reviewerStats) = 2
    /\ \E r1, r2 \in DOMAIN reviewerStats :
         /\ reviewerStats[r1] = [correct |-> 1, total |-> 1, accuracy |-> 1000]
         /\ reviewerStats[r2] = [correct |-> 0, total |-> 2, accuracy |-> 0]
    /\ PooledCorrect = 1 /\ PooledTotal = 3
    /\ overallStats.accuracy = 500

\* the enriched records of reviewer r on the questions of author a
OnAuthor(a, r) == {i \in EnrichedOf(r) : AuthorAt(i) = a}
ReviewersOn(a) == {r \in AggReviewers : OnAuthor(a, r) # {}}

\* the sum over the reviewers rs of correct/total on author a, as a fraction
RECURSIVE RatioSum(_, _)
RatioSum(a, rs) ==
    IF rs = {} THEN [num |-> 0, den |-> 1]
    ELSE LET r == CHOOSE x \in rs : TRUE
             rest == RatioSum(a, rs \ {r})
             c == Cardinality(CorrectIn(OnAuthor(a, r)))
             t == Cardinality(OnAuthor(a, r))
         IN [num |-> rest.num * t + c * rest.den, den |-> rest.den * t]

\* C26: an author's accuracy is the mean over the reviewers of each reviewer's
\* own correct/total ratio on the author's questions, rounded to one decimal;
\* records whose question has no author or the author 'Unknown' are in no
\* author entry.
C26_AuthorIsMeanOfReviewerRatios ==
    agPc = "analyzed" =>
        /\ DOMAIN authorStats = KnownAuthors
        /\ \A a \in DOMAIN authorStats :
             LET n == Cardinality(ReviewersOn(a))
                 sum == RatioSum(a, ReviewersOn(a))
             IN /\ authorStats[a].reviewerCount = n
                /\ RoundsTo(authorStats[a].accuracy, sum.num, sum.den * n)

\* C26 witness: on author A one reviewer has 1 of 1 and the other 0 of 2: the
\* mean of the ratios is 50.0 while the pooled ratio is 1 of 3.
C26_Witness ==
    /\ agPc = "analyzed"
    /\ "A" \in DOMAIN authorStats
    /\ \E r1, r2 \in AggReviewers :
         /\ Cardinality(OnAuthor("A", r1)) = 1
         /\ Cardinality(CorrectIn(OnAuthor("A", r1))) = 1
         /\ Cardinality(OnAuthor("A", r2)) = 2
         /\ CorrectIn(OnAuthor("A", r2)) = {}
    /\ authorStats["A"].accuracy = 500
    /\ authorStats["A"].reviewerCount = 2

\* ------------------------------------------------------------- SpecListed
\* the analytics page on record lists in any order of their timestamps
\* latest timestamp of a record (saveResult: timestamp: new Date().toISOString())
MaxStamp == 2

StampedRecords == [reviewer_name : AggReviewers, question_id : {"q1"},
                   is_correct : BOOLEAN, timestamp : 1..MaxStamp]

InitListed ==
    /\ AWS_CONFIG = [apiEndpoint |-> TRUE, enableS3Upload |-> TRUE]
    /\ MissIdle
    /\ SessIdle
    /\ agPc = "start"
    /\ agStore \in SeqsUpTo(StampedRecords, MaxReviews) \ {<<>>}
    /\ questions = << [questionID |-> "q1", authored_by |-> "A"],
                      [questionID |-> "q2", authored_by |-> "B"] >>
    /\ reviews = <<>>
    /\ selectedReviewers = {}
    /\ enrichedReviews = <<>>
    /\ authorStats = <<>>
    /\ reviewerStats = <<>>
    /\ questionStats = <<>>
    /\ overallStats = [accuracy |-> 0, reviewerCount |-> 0]

NextListed ==
    \/ AnalyticsInit
    \/ ToggleReviewer

SpecListed == InitListed /\ [][NextListed]_vars

\* the earliest record of a pair that has records (the first listed of equals)
EarliestOf(r, q) ==
    CHOOSE i \in RecordsOf(r, q) :
        \A j \in RecordsOf(r, q) :
            \/ enrichedReviews[i].timestamp < enrichedReviews[j].timestamp
            \/ enrichedReviews[i].timestamp = enrichedReviews[j].timestamp /\ i <= j

\* C24 (as claimed): per-reviewer accuracy counts, for each question of a
\* reviewer, the record with the earliest timestamp, whatever the order in
\* which the store lists the records.
C24_EarliestRecordIsCanonical ==
    agPc = "analyzed" =>
        \A r \in DOMAIN reviewerStats :
            reviewerStats[r].correct =
                Cardinality({q \in AnsweredBy(r) :
                               isCorrectOf(enrichedReviews[EarliestOf(r, q)])})

\* ----------------------------------------------------------- SpecNumbered
\* the analytics page on a catalog whose questionIDs are integers
NumberedRecords == [reviewer_name : AggReviewers, question_id : {"1", "2"},
                    is_correct : BOOLEAN]

InitNumbered ==
    /\ AWS_CONFIG = [apiEndpoint |-> TRUE, enableS3Upload |-> TRUE]
    /\ MissIdle
    /\ SessIdle
    /\ agPc = "start"
    /\ agStore \in SeqsUpTo(NumberedRecords, MaxReviews) \ {<<>>}
    /\ questions = << [questionID |-> "2", authored_by |-> "A"],
                      [questionID |-> "1", authored_by |-> "B"] >>
    /\ reviews = <<>>
    /\ selectedReviewers = {}
    /\ enrichedReviews = <<>>
    /\ authorStats = <<>>
    /\ reviewerStats = <<>>
    /\ questionStats = <<>>
    /\ overallStats = [accuracy |-> 0, reviewerCount |-> 0]

NextNumbered ==
    \/ AnalyticsInit
    \/ ToggleReviewer

SpecNumbered == InitNumbered /\ [][NextNumbered]_vars

\* the enriched records of question q, and the first of them
EnrichedOn(q) == {i \in DOMAIN enrichedReviews : questionIdOf(enrichedReviews[i]) = q}
FirstSeen(q) == CHOOSE i \in EnrichedOn(q) : \A j \in EnrichedOn(q) : i <= j

\* the by-question group has one entry per questionId of the enriched set,
\* which counts every record of that question
OneEntryPerQuestion ==
    /\ {questionStats[i].questionId : i \in DOMAIN questionStats}
         = {questionIdOf(enrichedReviews[i]) : i \in DOMAIN enrichedReviews}
    /\ \A i, j \in DOMAIN questionStats :
         questionStats[i].questionId = questionStats[j].questionId => i = j
    /\ \A i \in DOMAIN questionStats :
         /\ questionStats[i].total = Cardinality(EnrichedOn(questionStats[i].questionId))
         /\ questionStats[i].correct =
              Cardinality(CorrectIn(EnrichedOn(questionStats[i].questionId)))
         /\ RoundsTo(questionStats[i].accuracy, questionStats[i].correct,
                     questionStats[i].total)

\* C27 (as claimed): the by-question group has one entry per questionId with
\* at least one enriched record, counts every such record, and is sorted
\* ascending by accuracy with ties in the order in which the questionIds were
\* first seen in the input.
C27_ByQuestionSortedStable ==
    agPc = "analyzed" =>
        /\ OneEntryPerQuestion
        /\ \A i, j \in DOMAIN questionStats :
             i < j =>
               /\ questionStats[i].accuracy <= questionStats[j].accuracy
               /\ questionStats[i].accuracy = questionStats[j].accuracy =>
                    FirstSeen(questionStats[i].questionId)
                       < FirstSeen(questionStats[j].questionId)

\* ----------------------------------------------------------- SpecSpelling
\* one call of getMissingQuestions on a remote list that holds records in the
\* spelling of saveResult and records in the alternate spelling that
\* analytics.js also reads (reviewerName, questionIndex)
MaxSpelled == 2

SpelledRecords ==
    [reviewer_name : Reviewers, category : {"food"}, question_index : 0..MaxCatalog]
    \cup [reviewerName : Reviewers, category : {"food"}, questionIndex : 0..MaxCatalog]

InitSpelling ==
    /\ AWS_CONFIG = [apiEndpoint |-> TRUE, enableS3Upload |-> TRUE]
    /\ mqResponse \in {[kind |-> "ok", reviews |-> rs] : rs \in SeqsUpTo(SpelledRecords, MaxSpelled)}
    /\ mqArgs \in [reviewerName : {"alice"}, category : {"food"}, n : 1..MaxCatalog]
    /\ mqResult = [done |-> FALSE, value |-> <<>>, threw |-> FALSE]
    /\ AggIdle
    /\ SessIdle

NextSpelling == CallGetMissingQuestions

SpecSpelling == InitSpelling /\ [][NextSpelling]_vars

\* the same record in the canonical spelling
Canonical(r) ==
    IF "reviewerName" \in DOMAIN r
    THEN [reviewer_name |-> r.reviewerName, category |-> r.category,
          question_index |-> r.questionIndex]
    ELSE r

\* C28 (as claimed): a record in the alternate spelling is treated exactly like
\* the same record in the canonical spelling: getMissingQuestions returns for
\* a remote list what it returns for the list with every record respelled.
C28_SpellingsGiveSameMissing ==
    mqResult.done =>
        mqResult.value =
            getMissingQuestions(AWS_CONFIG,
                                [kind |-> "ok",
                                 reviews |-> [i \in DOMAIN mqResponse.reviews |->
                                                Canonical(mqResponse.reviews[i])]],
                                mqArgs.reviewerName, mqArgs.category, mqArgs.n).value

\* ------------------------------------------------------------ SpecComment
\* calls of StorageManager.updateComment on a local store
\* records in the local store
MaxStored == 2

CommentTexts == {"", "c", "d"}

\* the local stores: saveResult gives every record its own review_id
StoredWithComments ==
    UNION { { [i \in 1..n |-> [review_id |-> i, question_id |-> "q1", question_index |-> 0,
                                category |-> "food", reviewer_name |-> "alice",
                                answer |-> "x", correct_answer |-> "x",
                                is_correct |-> TRUE, comment |-> cs[i]]] :
                cs \in [1..n -> CommentTexts] } : n \in 0..MaxStored }

InitComment ==
    /\ AWS_CONFIG = [apiEndpoint |-> TRUE, enableS3Upload |-> TRUE]
    /\ MissIdle
    /\ AggIdle
    /\ page = "idle"
    /\ quizQuestions = <<>>
    /\ currentIndex = 0
    /\ selectedAnswer = Null
    /\ correctAnswerIndex = Null
    /\ currentReviewId = NoId
    /\ missingQuestionsMode = FALSE
    /\ missingQuestionIndexes = <<>>
    /\ currentMissingIndex = 0
    /\ resumeConfirmed = FALSE
    /\ ui = HiddenUi
    /\ localResults \in StoredWithComments
    /\ localProgress = Null
    /\ remoteReviews = <<>>
    /\ remoteProgress = Null
    /\ calls = <<>>
    /\ nextId = MaxStored + 1
    /\ lastStep = Quiet("none")

\* StorageManager.updateComment(reviewId, comment)
UpdateComment ==
    \E reviewId \in 1..(MaxStored + 1), comment \in CommentTexts, setItem \in SetItemKinds :
        LET r == updateCommentCall(localResults, reviewId, comment, setItem)
        IN /\ localResults' = r.results
           /\ lastStep' = [Quiet("comment") EXCEPT !.threw = r.threw]
                             @@ [reviewId |-> reviewId, comment |-> comment,
                                 value |-> r.value, setItem |-> setItem]
           /\ UNCHANGED <<missVars, aggVars, page, quizQuestions, appVars, resumeConfirmed,
                          ui, localProgress, remoteReviews, remoteProgress, calls, nextId>>

NextComment == UpdateComment

SpecComment == InitComment /\ [][NextComment]_vars

\* C29: updateComment with a recordId that is not in the local store returns
\* false, throws nothing and leaves the record list as it was; with a known
\* recordId nothing but the comment of that one record changes (to the given
\* comment when true is returned).
C29_UpdateCommentTouchesOneRecord ==
    [][lastStep'.op = "comment" =>
         /\ ~lastStep'.threw
         /\ ~hasReview(localResults, lastStep'.reviewId) =>
               (~lastStep'.value /\ localResults' = localResults)
         /\ hasReview(localResults, lastStep'.reviewId) =>
               /\ Len(localResults') = Len(localResults)
               /\ \A i \in DOMAIN localResults :
                    IF localResults[i].review_id = lastStep'.reviewId
                    THEN /\ localResults'[i] =
                              [localResults[i] EXCEPT !.comment = localResults'[i].comment]
                         /\ lastStep'.value => localResults'[i].comment = lastStep'.comment
                    ELSE localResults'[i] = localResults[i]]_vars

\* C29 witness: a call with an id that no record of a non-empty store has
\* returned false.
C29_Witness ==
    /\ lastStep.op = "comment"
    /\ localResults # <<>>
    /\ ~hasReview(localResults, lastStep.reviewId)
    /\ ~lastStep.value

\* -------------------------------------------------------------- SpecEntry
\* the quiz page from DOMContentLoaded: QuizApp.init, then loadQuestions
\* localStorage current_reviewer, current_category, current_quiz_path: set or not
ContextSet == [reviewerName : BOOLEAN, category : BOOLEAN, quizPath : BOOLEAN]

\* init, line 35: !(!this.reviewerName || !this.category || !this.quizPath)
hasContext(context) == context.reviewerName /\ context.category /\ context.quizPath

InitEntry ==
    /\ MissIdle
    /\ AggIdle
    /\ AWS_CONFIG \in ConfigSet
    /\ page = "entry"
    /\ quizQuestions = Catalog
    /\ currentIndex = 0
    /\ selectedAnswer = Null
    /\ correctAnswerIndex = Null
    /\ currentReviewId = NoId
    /\ missingQuestionsMode \in BOOLEAN
    /\ missingQuestionIndexes = <<>>
    /\ currentMissingIndex = 0
    /\ resumeConfirmed \in BOOLEAN
    /\ ui = HiddenUi
    /\ localResults = <<>>
    /\ localProgress \in Null..(NumQuestions - 1)
    /\ remoteProgress = localProgress
    /\ remoteReviews \in {PriorRecords(S, 0) : S \in PriorRemoteSets}
    /\ calls = <<>>
    /\ nextId = 1
    /\ lastStep = Quiet("none")

\* QuizApp.init up to the call of loadQuestions: without the session context,
\* an alert and index.html
InitApp ==
    /\ page = "entry"
    /\ \E context \in ContextSet :
         /\ page' = IF hasContext(context) THEN "loading" ELSE "home"
         /\ lastStep' = [Quiet("init") EXCEPT
                            !.dialogs = IF hasContext(context) THEN {} ELSE {"no-context"}]
                           @@ [context |-> context]
    /\ UNCHANGED <<missVars, aggVars, quizQuestions, appVars, resumeConfirmed, ui,
                   storeVars, calls, nextId>>

NextEntry ==
    \/ InitApp
    \/ LoadQuestions
    \/ SelectAnswer
    \/ SubmitAnswer
    \/ GoHome

SpecEntry == InitEntry /\ [][NextEntry]_vars

\* init found no session context, or loadQuestions no usable catalog
NoSessionStep ==
    \/ page = "entry" /\ lastStep'.op = "init" /\ ~hasContext(lastStep'.context)
    \/ page \in {"loading", "error"} /\ lastStep'.op = "load" /\ lastStep'.catalog # "ok"

\* C30: if the session context is missing, or the catalog cannot be fetched,
\* is not a list, is empty or has no question of the session's category, no
\* session starts: no question is shown and no answer record or progress
\* marker is written, by that step or before a later load succeeds.
C30_NoSessionWithoutContextOrCatalog ==
    /\ [](page \in {"entry", "loading", "error"} =>
              (ui = HiddenUi /\ localResults = <<>> /\ calls = <<>>))
    /\ [][NoSessionStep =>
             /\ page' \in {"home", "error"}
             /\ ui' = HiddenUi
             /\ calls' = <<>>
             /\ UNCHANGED <<storeVars, currentIndex, currentReviewId>>]_vars

\* C30 witness: the catalog had no question of the category; the error page is
\* shown and no question.
C30_Witness ==
    /\ page = "error"
    /\ lastStep.op = "load"
    /\ lastStep.catalog = "nocategory"
    /\ ui = HiddenUi
    /\ localResults = <<>>

\* ------------------------------------------------- local-only operation
\* C39: with remote upload disabled or no endpoint configured, a click on
\* 'next' sends no remote request and shows no retry prompt and no failure alert
C39_LocalOnlyNextIsSilent ==
    (lastStep.op = "next" /\ ~apiEnabled(AWS_CONFIG))
        => (~lastStep.sent /\ lastStep.dialogs = {})

\* the half of C39 the code keeps: no remote request is made
C39_LocalOnlyNextSendsNothing ==
    (lastStep.op \in {"next", "complete"} /\ ~apiEnabled(AWS_CONFIG))
        => (~lastStep.sent /\ lastStep.attempts = 0 /\ calls = <<>>)

\* ------------------------------------------------- the ranges of the statistics
\* 100.0 percent in tenths of a percent
FullAccuracy == toFixed1(1, 1)

\* C40: each by-reviewer entry has 0 <= correct <= total <= number of catalog
\* questions and total >= 1, and every accuracy of the four groups (by reviewer,
\* by question, by author, overall) lies between 0 and 100 percent
C40_StatisticsWithinRange ==
    agPc = "analyzed" =>
        /\ \A r \in DOMAIN reviewerStats :
             /\ 0 <= reviewerStats[r].correct
             /\ reviewerStats[r].correct <= reviewerStats[r].total
             /\ reviewerStats[r].total <= Len(questions)
             /\ reviewerStats[r].total >= 1
             /\ reviewerStats[r].accuracy \in 0..FullAccuracy
        /\ \A i \in DOMAIN questionStats : questionStats[i].accuracy \in 0..FullAccuracy
        /\ \A a \in DOMAIN authorStats : authorStats[a].accuracy \in 0..FullAccuracy
        /\ overallStats.accuracy \in 0..FullAccuracy

\* C40 witness: a reviewer answered a question twice, correctly both times, and
\* holds more records than the catalog has questions; the entry is at the upper
\* ends, correct = total and accuracy 100.0
C40_Witness ==
    /\ agPc = "analyzed"
    /\ \E r \in DOMAIN reviewerStats :
         /\ Cardinality(EnrichedOf(r)) > Len(questions)
         /\ \E q \in AnsweredBy(r) :
              /\ Cardinality(RecordsOf(r, q)) >= 2
              /\ \A i \in RecordsOf(r, q) : isCorrectOf(enrichedReviews[i])
         /\ reviewerStats[r].correct = reviewerStats[r].total
         /\ reviewerStats[r].total <= Len(questions)
         /\ reviewerStats[r].accuracy = FullAccuracy

\* ------------------------------------------------- the one source of the statistics
\* the list the remote store returned to the analytics page: none without an
\* endpoint (no request is made) or when the request failed
RemoteList ==
    IF AWS_CONFIG.apiEndpoint /\ mqResponse.kind = "ok" THEN mqResponse.reviews ELSE <<>>

\* an enriched record without the question attached to it
StoredPart(review) ==
    [reviewer_name |-> review.reviewer_name, question_id |-> review.question_id,
     is_correct |-> review.is_correct]

\* C36: the records aggregation consumes are the remote list when the remote
\* returned a non-empty list and the local list otherwise, never both: with a
\* non-empty remote list no record held only locally enters the statistics
C36_OneSourceOfRecords ==
    agPc \in {"analyzed", "error"} =>
        /\ reviews = (IF RemoteList # <<>> THEN RemoteList ELSE localResults)
        /\ RemoteList # <<>> =>
             \A i \in DOMAIN enrichedReviews :
                 StoredPart(enrichedReviews[i]) \in Range(RemoteList)

\* C36 witness: the remote list and the local store hold one record each, of
\* different reviewers on a catalog question; the statistics have the remote
\* reviewer only
C36_Witness ==
    /\ agPc = "analyzed"
    /\ RemoteList # <<>>
    /\ localResults # <<>>
    /\ questionMapHas(questions, questionIdOf(localResults[1]))
    /\ reviewerOf(localResults[1]) # reviewerOf(RemoteList[1])
    /\ DOMAIN reviewerStats = {reviewerOf(RemoteList[1])}
    /\ Len(enrichedReviews) = 1

\* ------------------------------------------------- the markers a session writes
\* C37: every marker a Sequential session writes, locally or remotely, has
\* questionIndex <= N-2: the session never writes N-1, the index of the last question
C37_SessionMarkerBelowLast ==
    [][(page = "question" /\ ~missingQuestionsMode) =>
          /\ (localProgress' # localProgress /\ localProgress' # Null) =>
                 localProgress' <= Len(quizQuestions) - 2
          /\ (remoteProgress' # remoteProgress) =>
                 remoteProgress' <= Len(quizQuestions) - 2]_vars

\* the part of C37 the code keeps: 'next' is offered only below the last index
\* and a click on 'complete' writes no marker
C37_NextOfferedBelowLast ==
    /\ (page = "question" /\ ui.next /\ ~missingQuestionsMode) =>
           currentIndex < Len(quizQuestions) - 1
    /\ \A k \in DOMAIN calls : calls[k].kind = "complete" => calls[k].pc # "put"

\* ------------------------------------------------- the marker and the remote records
\* the invocations of nextQuestion that await the POST of their record
NextPosts(cs) == {k \in DOMAIN cs : cs[k].kind = "next" /\ cs[k].pc = "post"}

\* the remote store holds no record for some index <= i
RemoteLacksUpTo(i) ==
    \E j \in 0..i : \A k \in DOMAIN remoteReviews : remoteReviews[k].question_index # j

C38_SkippedWitness ==
    /\ page = "question"
    /\ ~missingQuestionsMode
    /\ lastStep.op = "post"
    /\ lastStep.answer = "skip"
    /\ localProgress = 0
    /\ RemoteLacksUpTo(localProgress)

\* ------------------------------------------------- the comment and the sync of a record
\* an append of the record reviewId was attempted: a POST of it is pending or
\* the remote store holds it
AppendAttempted(reviewId) ==
    \/ \E k \in DOMAIN calls :
          calls[k].reviewData # <<>> /\ calls[k].reviewData.review_id = reviewId
    \/ hasReview(remoteReviews, reviewId)

\* record a with the comment of record b
WithCommentOf(a, b) == [a EXCEPT !.comment = b.comment]

\* the part of C33 on the record sent: the record in a pending POST carries a
\* trimmed comment entered at the click and is otherwise the stored record, and a
\* step changes no field of a stored record but its comment
C33_SentRecordIsStoredRecord ==
    [][/\ \A k \in DOMAIN calls' :
            calls'[k].pc = "post" =>
               /\ \E typed \in CommentInputs : calls'[k].reviewData.comment = trim(typed)
               /\ hasReview(localResults', calls'[k].reviewData.review_id)
               /\ calls'[k].reviewData =
                     findReview(localResults', calls'[k].reviewData.review_id)
       /\ \A i \in DOMAIN localResults :
            /\ i \in DOMAIN localResults'
            /\ localResults'[i] = WithCommentOf(localResults[i], localResults'[i])]_vars

\* C33: a click on 'next' or 'complete' updates the comment of the record before
\* any append of that record was attempted, the record sent carries the comment
\* entered, and no other field of a stored record changes up to its sync
C33_CommentUpdateBeforeAppend ==
    [][/\ (lastStep'.op \in {"next", "complete"} /\ currentReviewId # NoId) =>
            ~AppendAttempted(currentReviewId)
       /\ \A k \in DOMAIN calls' :
            calls'[k].pc = "post" =>
               /\ \E typed \in CommentInputs : calls'[k].reviewData.comment = trim(typed)
               /\ hasReview(localResults', calls'[k].reviewData.review_id)
               /\ calls'[k].reviewData =
                     findReview(localResults', calls'[k].reviewData.review_id)
       /\ \A i \in DOMAIN localResults :
            /\ i \in DOMAIN localResults'
            /\ localResults'[i] = WithCommentOf(localResults[i], localResults'[i])]_vars

\* ------------------------------------------------- the Missing-Only traversal
\* a Missing-Only session is under way
MissingSession == page = "question" /\ missingQuestionsMode

\* the list is strictly ascending
Ascending(list) == \A i, j \in DOMAIN list : i < j => list[i] < list[j]

\* what getMissingQuestions can return on the remote store as it is
MissingListsNow ==
    {getMissingQuestions(AWS_CONFIG, [kind |-> k, reviews |-> remoteReviews],
                         reviewerName, category, Len(quizQuestions)).value :
        k \in ResponseKinds}

\* C32: a Missing-Only session starts on the first index of the non-empty list
\* getMissingQuestions returned, shows the indexes of that list one after the
\* other in ascending order, each once, and offers 'complete' on the last one
\* only and 'next' on the others; with an empty list no session starts
C32_MissingOnlyTraversal ==
    /\ [](MissingSession =>
            /\ missingQuestionIndexes # <<>>
            /\ Ascending(missingQuestionIndexes)
            /\ currentMissingIndex \in 0..(Len(missingQuestionIndexes) - 1)
            /\ currentIndex = missingQuestionIndexes[currentMissingIndex + 1]
            /\ ui.complete => currentMissingIndex = Len(missingQuestionIndexes) - 1
            /\ ui.next => currentMissingIndex < Len(missingQuestionIndexes) - 1
            /\ ui.result => (ui.next \/ ui.complete))
    /\ [][/\ (page # "question" /\ page' = "question" /\ missingQuestionsMode') =>
               /\ missingQuestionIndexes' \in MissingListsNow
               /\ currentMissingIndex' = 0
          /\ (lastStep'.op = "load" /\ missingQuestionsMode /\ lastStep'.catalog = "ok"
                 /\ page' # "question") =>
               (<<>> \in MissingListsNow /\ missingQuestionIndexes' = <<>>)
          /\ (MissingSession /\ page' = "question") =>
               /\ missingQuestionsMode'
               /\ missingQuestionIndexes' = missingQuestionIndexes
               /\ currentMissingIndex' \in {currentMissingIndex, currentMissingIndex + 1}]_vars

\* C32 witness: the list was <<0, 1>>, index 0 was answered and left by 'next',
\* and index 1, the last one, is answered: 'complete' is offered
C32_Witness ==
    /\ MissingSession
    /\ missingQuestionIndexes = <<0, 1>>
    /\ currentMissingIndex = 1
    /\ currentIndex = 1
    /\ ui.complete /\ ~ui.next
    /\ Len(localResults) = 2

\* the empty list: the page went home from the load with the all-saved alert
C32_EmptyListWitness ==
    /\ page = "home"
    /\ missingQuestionsMode
    /\ lastStep.op = "load"
    /\ lastStep.dialogs = {"all-saved"}
    /\ missingQuestionIndexes = <<>>

\* --------------------------------------------------------- SpecTraverse
\* a Sequential session on a catalog one question longer, with the API enabled
\* and nothing left by earlier sessions
InitTraverse ==
    /\ MissIdle
    /\ AggIdle
    /\ AWS_CONFIG = [apiEndpoint |-> TRUE, enableS3Upload |-> TRUE]
    /\ page = "loading"
    /\ quizQuestions = CatalogOf(NumQuestions + 1)
    /\ currentIndex = 0
    /\ selectedAnswer = Null
    /\ correctAnswerIndex = Null
    /\ currentReviewId = NoId
    /\ missingQuestionsMode = FALSE
    /\ missingQuestionIndexes = <<>>
    /\ currentMissingIndex = 0
    /\ resumeConfirmed = FALSE
    /\ ui = HiddenUi
    /\ localResults = <<>>
    /\ localProgress = Null
    /\ remoteProgress = Null
    /\ remoteReviews = <<>>
    /\ calls = <<>>
    /\ nextId = 1
    /\ lastStep = Quiet("none")

SpecTraverse == InitTraverse /\ [][Next]_vars

\* the local store holds an answer record of the question at index i
AnsweredLocally(i) ==
    \E k \in DOMAIN localResults : localResults[k].question_index = i

\* C35: in Sequential mode the current index moves from i to i+1 only, and only
\* when the local store holds an answer record of index i made in this session
\* (the local store starts empty)
C35_NoAdvanceWithoutAnswer ==
    [][(page = "question" /\ page' = "question" /\ ~missingQuestionsMode
           /\ currentIndex' # currentIndex) =>
          /\ currentIndex' = currentIndex + 1
          /\ AnsweredLocally(currentIndex)]_vars

\* the part of C35 the code keeps: the button that starts an advance is shown
\* only once the current question has its record
C35_NextOfferedAfterAnswer ==
    (page = "question" /\ (ui.next \/ ui.complete)) =>
        (currentReviewId # NoId /\ AnsweredLocally(currentIndex))

\* ------------------------------------------ migrate-progress.mjs: SpecMigrate
\* records in review.json, and runs of the script
MaxHistory == 3
MaxRuns == 2

\* reviewer and category names, with and without the separator of the key
MigReviewers == {"a", "a__b"}
MigCategories == {"c", "b__c"}

\* a property that is not there reads as undefined: a value that is no index
Undefined == Null - 1

\* the records of review.json: as saveResult writes them, and older ones
\* without question_index
HistoryRecords ==
    [reviewer_name : MigReviewers, category : MigCategories, question_index : 0..1,
     timestamp : 1..2]
    \cup [reviewer_name : MigReviewers, category : MigCategories, timestamp : 1..2]

\* review.question_index
questionIndexOf(review) ==
    IF "question_index" \in DOMAIN review THEN review.question_index ELSE Undefined

\* a < b on numbers and undefined: false when either side is undefined (NaN)
lessThan(a, b) == a # Undefined /\ b # Undefined /\ a < b

\* `${reviewerName}__${category}`
progressKey(reviewer, cat) == reviewer \o "__" \o cat

\* migrateProgress, the forEach of lines 44-61
RECURSIVE migrateLoop(_, _)
migrateLoop(rs, progressMap) ==
    IF rs = <<>> THEN progressMap
    ELSE LET review == Head(rs)
             questionIndex == questionIndexOf(review)
             key == progressKey(review.reviewer_name, review.category)
         IN migrateLoop(Tail(rs),
              IF key \notin DOMAIN progressMap
                 \/ lessThan(progressMap[key].questionIndex, questionIndex)
              THEN put(progressMap, key,
                       [reviewerName |-> review.reviewer_name,
                        category |-> review.category,
                        questionIndex |-> questionIndex,
                        timestamp |-> review.timestamp])
              ELSE progressMap)

\* review.json holds the history, progress.json is empty, the script has not run
InitMigrate ==
    /\ AWS_CONFIG = [apiEndpoint |-> TRUE, enableS3Upload |-> TRUE]
    /\ MissIdle
    /\ AggIdle
    /\ page = "idle"
    /\ quizQuestions = <<>>
    /\ currentIndex = 0
    /\ selectedAnswer = Null
    /\ correctAnswerIndex = Null
    /\ currentReviewId = NoId
    /\ missingQuestionsMode = FALSE
    /\ missingQuestionIndexes = <<>>
    /\ currentMissingIndex = 0
    /\ resumeConfirmed = FALSE
    /\ ui = HiddenUi
    /\ localResults = <<>>
    /\ localProgress = Null
    /\ remoteReviews \in SeqsUpTo(HistoryRecords, MaxHistory)
    /\ remoteProgress = <<>>
    /\ calls = <<>>
    /\ nextId = 1
    /\ lastStep = Quiet("none")

\* migrateProgress: one run of the script, which reads review.json and puts
\* progress.json
MigrateProgress ==
    /\ lastStep.attempts < MaxRuns
    /\ remoteProgress' = migrateLoop(remoteReviews, <<>>)
    /\ lastStep' = [Quiet("migrate") EXCEPT !.attempts = lastStep.attempts + 1]
    /\ UNCHANGED <<missVars, aggVars, page, quizQuestions, appVars, resumeConfirmed, ui,
                   localResults, localProgress, remoteReviews, calls, nextId>>

NextMigrate == MigrateProgress

SpecMigrate == InitMigrate /\ [][NextMigrate]_vars

\* the (reviewer, category) pairs of the history and the indexes of a pair
PairsOf(rs) == {<<rs[i].reviewer_name, rs[i].category>> : i \in DOMAIN rs}
IndexesOf(rs, pair) ==
    {rs[i].question_index :
        i \in {j \in DOMAIN rs : /\ <<rs[j].reviewer_name, rs[j].category>> = pair
                                  /\ "question_index" \in DOMAIN rs[j]}}
MaxOf(S) == CHOOSE m \in S : \A i \in S : i <= m

\* the history in another order
Reordered(rs, p) == [i \in DOMAIN rs |-> rs[p[i]]]

\* the questionIndex of every marker of a mapping
MarkerIndexes(progressMap) == [k \in DOMAIN progressMap |-> progressMap[k].questionIndex]

\* every record of the history has its question_index
IndexedHistory ==
    \A i \in DOMAIN remoteReviews : "question_index" \in DOMAIN remoteReviews[i]

\* no two pairs of the history have the same key
DistinctKeys ==
    \A p, q \in PairsOf(remoteReviews) :
        progressKey(p[1], p[2]) = progressKey(q[1], q[2]) => p = q

PlainHistory == IndexedHistory /\ DistinctKeys

\* the script ran: every pair of the history with an index has its own marker,
\* at the maximum of its indexes, and every order of the history gives the
\* same indexes
MarkersAreMaxima ==
    /\ \A pair \in PairsOf(remoteReviews) :
         IndexesOf(remoteReviews, pair) # {} =>
            /\ progressKey(pair[1], pair[2]) \in DOMAIN remoteProgress
            /\ remoteProgress[progressKey(pair[1], pair[2])].reviewerName = pair[1]
            /\ remoteProgress[progressKey(pair[1], pair[2])].category = pair[2]
            /\ remoteProgress[progressKey(pair[1], pair[2])].questionIndex =
                  MaxOf(IndexesOf(remoteReviews, pair))
    /\ \A p \in Permutations(DOMAIN remoteReviews) :
         MarkerIndexes(migrateLoop(Reordered(remoteReviews, p), <<>>))
            = MarkerIndexes(remoteProgress)

\* C31: after a run of the migration every (reviewer, category) pair of the
\* history has a marker at the maximum question_index of its records, whatever
\* the order of the records, and a second run leaves the same mapping
C31_MigrationDerivesMaxima ==
    lastStep.op = "migrate" =>
        /\ MarkersAreMaxima
        /\ remoteProgress = migrateLoop(remoteReviews, <<>>)

\* the part of C31 the code keeps: a run on the same history gives the same
\* mapping, and on a history whose pairs have distinct keys and whose records
\* all have their question_index the markers are the maxima in every order
C31_RerunAndPlainHistory ==
    lastStep.op = "migrate" =>
        /\ remoteProgress = migrateLoop(remoteReviews, <<>>)
        /\ PlainHistory => MarkersAreMaxima

\* ------------------------------------------ storage.js: SpecProgress
\* the largest questionIndex saveProgress is called with
MaxMarker == 1

\* the (reviewer, category) pairs the progress store is used for
ProgressPairs == MigReviewers \X MigCategories

\* getProgress, lines 389-391, on the local store: progressData[key] || null
localMarkerOf(progressData, reviewer, cat) ==
    IF progressKey(reviewer, cat) \in DOMAIN progressData
    THEN progressData[progressKey(reviewer, cat)]
    ELSE <<>>

\* delete progressData[key]
deleteKey(progressData, key) == [k \in DOMAIN progressData \ {key} |-> progressData[k]]

\* the progress store is empty and no marker was put remotely
InitProgress ==
    /\ AWS_CONFIG \in ConfigSet
    /\ MissIdle
    /\ AggIdle
    /\ page = "idle"
    /\ quizQuestions = <<>>
    /\ currentIndex = 0
    /\ selectedAnswer = Null
    /\ correctAnswerIndex = Null
    /\ currentReviewId = NoId
    /\ missingQuestionsMode = FALSE
    /\ missingQuestionIndexes = <<>>
    /\ currentMissingIndex = 0
    /\ resumeConfirmed = FALSE
    /\ ui = HiddenUi
    /\ localResults = <<>>
    /\ localProgress = <<>>
    /\ remoteReviews = <<>>
    /\ remoteProgress = <<>>
    /\ calls = <<>>
    /\ nextId = 1
    /\ lastStep = Quiet("none")

\* the summary of a call on the progress store
ProgressStep(op, reviewer, cat, setItem) ==
    Quiet(op) @@ [reviewerName |-> reviewer, category |-> cat, setItem |-> setItem]

\* StorageManager.saveProgress(reviewerName, category, questionIndex): the local
\* write, then the PUT when the API is enabled; a throw of setItem is caught and
\* skips the PUT. remoteProgress holds the body of the last PUT the remote took;
\* the timestamp of the marker is left out
SaveProgress ==
    \E pair \in ProgressPairs, questionIndex \in 0..MaxMarker, setItem \in SetItemKinds,
       outcome \in {"ok", "fail"} :
        LET marker == [reviewerName |-> pair[1], category |-> pair[2],
                       questionIndex |-> questionIndex]
            sent == setItem = "ok" /\ apiEnabled(AWS_CONFIG)
        IN /\ localProgress' = IF setItem = "ok"
                               THEN put(localProgress, progressKey(pair[1], pair[2]), marker)
                               ELSE localProgress
           /\ remoteProgress' = IF sent /\ outcome = "ok" THEN marker ELSE remoteProgress
           /\ lastStep' = [ProgressStep("saveProgress", pair[1], pair[2], setItem) EXCEPT
                              !.sent = sent,
                              !.outcome = IF sent THEN outcome ELSE "none"]
           /\ UNCHANGED <<missVars, aggVars, page, quizQuestions, appVars, resumeConfirmed,
                          ui, localResults, remoteReviews, calls, nextId>>

\* StorageManager.clearProgress(reviewerName, category): local only
ClearProgress ==
    \E pair \in ProgressPairs, setItem \in SetItemKinds :
        /\ localProgress' = IF setItem = "ok"
                            THEN deleteKey(localProgress, progressKey(pair[1], pair[2]))
                            ELSE localProgress
        /\ lastStep' = ProgressStep("clearProgress", pair[1], pair[2], setItem)
        /\ UNCHANGED <<missVars, aggVars, page, quizQuestions, appVars, resumeConfirmed,
                       ui, localResults, remoteReviews, remoteProgress, calls, nextId>>

NextProgress ==
    \/ SaveProgress
    \/ ClearProgress

SpecProgress == InitProgress /\ [][NextProgress]_vars

\* the markers the store holds for a pair
MarkersOf(progressData, pair) ==
    {k \in DOMAIN progressData :
        progressData[k].reviewerName = pair[1] /\ progressData[k].category = pair[2]}

\* C34: the local progress store holds at most one marker per (reviewer,
\* category) pair, and a saveProgress or clearProgress for one pair leaves what
\* the store returns for every other pair as it was, names with "__" included
C34_OneMarkerPerPairAndFrame ==
    /\ [](\A pair \in ProgressPairs : Cardinality(MarkersOf(localProgress, pair)) <= 1)
    /\ [][\A pair \in ProgressPairs :
             <<lastStep'.reviewerName, lastStep'.category>> # pair =>
                 localMarkerOf(localProgress', pair[1], pair[2])
                    = localMarkerOf(localProgress, pair[1], pair[2])]_vars

\* the part of C34 the code keeps: at most one marker per pair, and a write or
\* a clear leaves every other key of the store as it was
C34_OtherKeysUnchanged ==
    /\ [](\A pair \in ProgressPairs : Cardinality(MarkersOf(localProgress, pair)) <= 1)
    /\ [][\A pair \in ProgressPairs :
             progressKey(lastStep'.reviewerName, lastStep'.category)
                   # progressKey(pair[1], pair[2]) =>
                 localMarkerOf(localProgress', pair[1], pair[2])
                    = localMarkerOf(localProgress, pair[1], pair[2])]_vars

====
